---- MODULE Spec2Model ----
(***************************************************************************)
(* Model of the vulnerability REST view of faraday                         *)
(* (src/faraday/server/api/modules/vulns.py): the filter-tree preprocessor *)
(* _hostname_filters, the query synthesizer _generate_filter_query, the    *)
(* orchestrator _filter, and the create / update / bulk operations of      *)
(* VulnerabilityView with the schema hooks they run.                       *)
(*                                                                         *)
(* Python dicts are functions whose DOMAIN is the set of keys present, so  *)
(* "key in d" is  k \in DOMAIN d  and d.get(k) is Get(d, k).               *)
(***************************************************************************)
EXTENDS Integers, Sequences, FiniteSets, TLC

VARIABLES
    vulns,   \* the vulnerability table: a set of rows
    req,     \* the request being served (its method, workspace and body)
    resp     \* the response to it

vars == <<vulns, req, resp>>

(***************************************************************************)
(* Bounds of the model.                                                    *)
(***************************************************************************)
MaxNodes == 4        \* nodes (leaves and groups) of a filter tree given to _hostname_filters
MaxFilterNodes == 2  \* nodes of the filter tree of a request to _filter
MaxVulns == 2        \* rows the create endpoint may add to the table

(***************************************************************************)
(* Python values.                                                          *)
(***************************************************************************)
None == "<None>"          \* Python None where the other values are strings
NoId == -1                \* Python None where the other values are ids (a NULL column)

Get(d, k) == IF k \in DOMAIN d THEN d[k] ELSE None
GetId(d, k) == IF k \in DOMAIN d THEN d[k] ELSE NoId
Truthy(v) == v # None /\ v # ""

\* d.pop(k, default): the dict without the key
Pop(d, k) == [x \in DOMAIN d \ {k} |-> d[x]]
\* d[k] = v
Put(d, k, v) == [x \in DOMAIN d \cup {k} |-> IF x = k THEN v ELSE d[x]]

\* the union of two dicts with disjoint keys, and the dicts with an optional key
Join(f, g) == [k \in DOMAIN f \cup DOMAIN g |-> IF k \in DOMAIN f THEN f[k] ELSE g[k]]
Opt(k, S) == {<<>>} \cup {[j \in {k} |-> v] : v \in S}

\* the concatenation of a list of lists
RECURSIVE Flatten(_)
Flatten(ss) == IF ss = <<>> THEN <<>> ELSE Head(ss) \o Flatten(Tail(ss))

(***************************************************************************)
(* Filter trees: a list of nodes; a node is a leaf {name, op, val, field?} *)
(* or a group {"or": [...]} / {"and": [...]}.                              *)
(***************************************************************************)
HostA == [name |-> "hostnames", op |-> "==", val |-> "a.com"]
HostB == [name |-> "hostnames", op |-> "==", val |-> "b.com"]
SevHigh == [name |-> "severity", op |-> "==", val |-> "high"]
OsLinux == [name |-> "host__os", op |-> "==", val |-> "linux"]
NameField == [name |-> "name", op |-> "==", val |-> "x", field |-> "description"]

LeafPool == {HostA, HostB, SevHigh, OsLinux, NameField}

IsLeaf(node) == "or" \notin DOMAIN node /\ "and" \notin DOMAIN node

\* the lists of nodes with exactly n nodes in all, leaves drawn from L
RECURSIVE Forest(_, _)
Forest(n, L) ==
    IF n = 0 THEN {<<>>}
    ELSE UNION {
        LET trees == (IF m = 1 THEN L ELSE {})
                     \cup {[or |-> f] : f \in Forest(m - 1, L)}
                     \cup {[and |-> f] : f \in Forest(m - 1, L)}
        IN  {<<t>> \o rest : t \in trees, rest \in Forest(n - m, L)}
        : m \in 1..n }

ForestUpTo(n, L) == UNION {Forest(k, L) : k \in 0..n}

(***************************************************************************)
(* VulnerabilityView._hostname_filters                                     *)
(***************************************************************************)
\* mutant: the optional "field" key is not copied to the rebuilt leaf
field_filter_nofield(search_filter) ==
    [name |-> Get(search_filter, "name"),
     op |-> Get(search_filter, "op"),
     val |-> Get(search_filter, "val")]
\* the leaf branch: the dict rebuilt from name, op, val and a truthy field
field_filter(search_filter) ==
    LET base == [name |-> Get(search_filter, "name"),
                 op |-> Get(search_filter, "op"),
                 val |-> Get(search_filter, "val")]
    IN  IF Truthy(Get(search_filter, "field"))
        THEN Put(base, "field", search_filter["field"])
        ELSE base

\* mutant: the emptiness test of a rebuilt group is dropped
keep_group_always(sub) == TRUE
\* "if or_filters:" / "if and_filters:"
keep_group(sub) == sub # <<>>

\* "if fieldname == 'hostnames':"
is_hostname_leaf(leaf) == leaf["name"] = "hostnames"

\* mutant: the hostnames leaves found inside a group are forgotten
deep_hostname_filters_lost(deep) == <<>>
\* "hostname_filters += deep_hostname_filters"
deep_hostname_filters(deep) == deep[2]

RECURSIVE _hostname_filters(_)
_hostname_filters(filters) ==
    IF filters = <<>> THEN <<<<>>, <<>>>>
    ELSE
        LET search_filter == Head(filters)
            this ==
                IF IsLeaf(search_filter) THEN
                    LET ff == field_filter(search_filter)
                    IN  IF is_hostname_leaf(ff) THEN <<<<>>, <<ff>>>> ELSE <<<<ff>>, <<>>>>
                ELSE IF "or" \in DOMAIN search_filter THEN
                    LET deep == _hostname_filters(search_filter["or"])
                    IN  <<IF keep_group(deep[1]) THEN <<[or |-> deep[1]]>> ELSE <<>>,
                          deep_hostname_filters(deep)>>
                ELSE
                    LET deep == _hostname_filters(search_filter["and"])
                    IN  <<IF keep_group(deep[1]) THEN <<[and |-> deep[1]]>> ELSE <<>>,
                          deep_hostname_filters(deep)>>
            rest == _hostname_filters(Tail(filters))
        IN  <<this[1] \o rest[1], this[2] \o rest[2]>>

(***************************************************************************)
(* The database the view works on.  Hosts, services and hostnames are not  *)
(* written by this view: they are fixed tables.  Ids are per table.        *)
(***************************************************************************)
Workspaces == {"w1", "w2"}

Hosts == {[id |-> 1, ws |-> "w1", os |-> "linux", hostnames |-> {"a.com", "b.com"}],
          [id |-> 2, ws |-> "w2", os |-> "linux", hostnames |-> {"a.com"}],
          [id |-> 3, ws |-> "w1", os |-> "windows", hostnames |-> {"b.com"}]}

Services == {[id |-> 1, ws |-> "w1", host_id |-> 1],
             [id |-> 2, ws |-> "w2", host_id |-> 2],
             [id |-> 3, ws |-> "w1", host_id |-> 1]}

\* a row of the vulnerability table
VulnRow(id, ws, type, host_id, service_id, severity) ==
    [id |-> id, ws |-> ws, type |-> type, host_id |-> host_id,
     service_id |-> service_id, severity |-> severity,
     tool |-> "Web UI", tags |-> {}, confirmed |-> FALSE, files |-> <<>>]

NewId == IF vulns = {} THEN 1
         ELSE 1 + (CHOOSE m \in {v.id : v \in vulns} : \A v \in vulns : v.id <= m)

(***************************************************************************)
(* Outcomes of a step of request handling.                                 *)
(***************************************************************************)
Ok(data) == [kind |-> "ok", data |-> data]
ValidationError(msg) == [kind |-> "ValidationError", msg |-> msg, arg |-> NoId]
ParentNotFound(parent_id) ==
    [kind |-> "ValidationError", msg |-> "Parent id not found: ", arg |-> parent_id]
InvalidUsage(msg) == [kind |-> "InvalidUsage", msg |-> msg, arg |-> NoId]
KeyError(key) == [kind |-> "KeyError", msg |-> key, arg |-> NoId]
TypeError == [kind |-> "TypeError", msg |-> "", arg |-> NoId]

(***************************************************************************)
(* VulnerabilitySchema                                                     *)
(***************************************************************************)
\* VulnerabilitySchema.load_type
load_type(value) ==
    IF value = "Vulnerability" THEN Ok("vulnerability")
    ELSE IF value = "VulnerabilityWeb" THEN Ok("vulnerability_web")
    ELSE ValidationError("Invalid vulnerability type.")

\* the fields declared required=True
RequiredFields == {"parent", "parent_type", "severity", "type"}

ParentTable(parent_type) == IF parent_type = "Host" THEN Hosts ELSE Services
ParentField(parent_type) == IF parent_type = "Host" THEN "host_id" ELSE "service_id"

\* mutant: the parent is looked up by id alone, in every workspace
parent_query_any_workspace(parent_type, workspace_name, parent_id) ==
    {p \in ParentTable(parent_type) : p.id = parent_id}
\* db.session.query(parent_class).join(Workspace).filter(Workspace.name == ..., parent_class.id == parent_id)
parent_query(parent_type, workspace_name, parent_id) ==
    {p \in ParentTable(parent_type) : p.ws = workspace_name /\ p.id = parent_id}

\* mutant: the type of the payload is not compared with the parent type
web_with_host_never(parent_type, data) == FALSE
\* "if parent_type == 'Host' and data['type'] == 'vulnerability_web':"
web_with_host(parent_type, data) ==
    parent_type = "Host" /\ data["type"] = "vulnerability_web"

\* VulnerabilitySchema.post_load_parent
post_load_parent(data, workspace_name) ==
    LET parent_type == Get(data, "parent_type")
        parent_id == GetId(data, "parent")
        rest == Pop(Pop(data, "parent_type"), "parent")
    IN  IF ~(Truthy(parent_type) /\ parent_id # NoId /\ parent_id # 0) THEN Ok(rest)
        ELSE IF parent_type \notin {"Host", "Service"}
             THEN ValidationError("Unknown parent type")
        ELSE IF parent_type = "Host" /\ "type" \notin DOMAIN rest THEN KeyError("type")
        ELSE IF web_with_host(parent_type, rest)
             THEN ValidationError("Trying to set a host for a vulnerability web")
        ELSE IF parent_query(parent_type, workspace_name, parent_id) = {}
             THEN ParentNotFound(parent_id)
        ELSE Ok(Put(rest, ParentField(parent_type), parent_id))

\* Schema.load of VulnerabilitySchema / VulnerabilityWebSchema: the fields
\* are deserialized (load_type), the required ones are checked unless the
\* load is partial, and the post_load hooks run only when no field failed
schema_load(body, partial, workspace_name) ==
    IF "type" \in DOMAIN body /\ load_type(body["type"]).kind # "ok"
    THEN load_type(body["type"])
    ELSE IF ~partial /\ ~(RequiredFields \subseteq DOMAIN body)
    THEN ValidationError("Missing data for required field.")
    ELSE post_load_parent(
            IF "type" \in DOMAIN body
            THEN Put(body, "type", load_type(body["type"]).data)
            ELSE body,
            workspace_name)

(***************************************************************************)
(* VulnerabilityView: class selection                                      *)
(***************************************************************************)
model_class_dict == [Vulnerability |-> "vulnerability",
                     VulnerabilityWeb |-> "vulnerability_web",
                     VulnerabilityGeneric |-> "generic"]
schema_class_dict == [Vulnerability |-> "VulnerabilitySchema",
                      VulnerabilityWeb |-> "VulnerabilityWebSchema"]

\* mutant: the type is looked up without the emptiness and membership tests
schema_class_unchecked(method, json) == Ok("VulnerabilityWebSchema")
\* VulnerabilityView._get_schema_class; request.json is falsy for a missing
\* or empty body
_get_schema_class(method, json) ==
    IF method = "POST" /\ DOMAIN json # {} THEN
        LET requested_type == Get(json, "type")
        IN  IF ~Truthy(requested_type) THEN InvalidUsage("Type is required.")
            ELSE IF requested_type \notin DOMAIN schema_class_dict
                 THEN InvalidUsage("Invalid vulnerability type.")
            ELSE Ok(schema_class_dict[requested_type])
    ELSE Ok("VulnerabilityWebSchema")

\* VulnerabilityView.model_class, as the polymorphic identity of the class
model_class(method, json) ==
    IF method = "POST" THEN model_class_dict[json["type"]]
    ELSE model_class_dict["VulnerabilityGeneric"]

\* the HTTP answer to a failed step: a validation error or an invalid usage
\* is a client error, an uncaught exception a server fault
ErrorResponse(op, outcome) ==
    [op |-> op,
     code |-> IF outcome.kind \in {"KeyError", "binascii.Error"} THEN 500 ELSE 400,
     msg |-> outcome.msg,
     arg |-> outcome.arg]

Response(op, code, msg, arg) == [op |-> op, code |-> code, msg |-> msg, arg |-> arg]

(***************************************************************************)
(* Evidence files.  The File rows of a vulnerability are the sequence      *)
(* files of its row, in insertion order; a file name is a sequence of      *)
(* characters and an attachment payload the sequence of its items.         *)
(***************************************************************************)
\* b64decode on the payloads of the requests; data that is not base64
\* raises binascii.Error
b64decode(data) ==
    CASE data = "YzE=" -> Ok("c1")
      [] data = "YzI=" -> Ok("c2")
      [] OTHER -> [kind |-> "binascii.Error", msg |-> "Incorrect padding", arg |-> NoId]

\* str.replace(old, new) for single characters
replace(s, old, new) == [i \in DOMAIN s |-> IF s[i] = old THEN new ELSE s[i]]

\* Path(filename).name: what follows the last separator
PathName(filename) ==
    LET seps == {i \in DOMAIN filename : filename[i] = "/"}
    IN  IF seps = {} THEN filename
        ELSE SubSeq(filename, 1 + (CHOOSE m \in seps : \A i \in seps : i <= m),
                    Len(filename))

\* "filename = filename.replace(" ", "_")" and "filename=Path(filename).name"
stored_filename(filename) == PathName(replace(filename, " ", "_"))

\* mutant: the old File rows are kept
old_attachments_kept(files) == files
\* "for old_attachment in old_attachments: db.session.delete(old_attachment)"
old_attachments_deleted(files) == <<>>

\* the loop of _process_attachments: the data of each item is decoded and a
\* File row created for it; an item that does not decode raises
RECURSIVE add_attachments(_, _)
add_attachments(files, items) ==
    IF items = <<>> THEN Ok(files)
    ELSE LET faraday_file == b64decode(Head(items).data)
         IN  IF faraday_file.kind # "ok" THEN Join(faraday_file, [data |-> files])
             ELSE add_attachments(
                    Append(files, [filename |-> stored_filename(Head(items).key),
                                   content |-> faraday_file.data]),
                    Tail(items))

\* VulnerabilityView._process_attachments; when it raises, data is the
\* object as the session holds it at that point
_process_attachments(obj, attachments) ==
    LET added == add_attachments(old_attachments_deleted(obj.files), attachments)
    IN  [added EXCEPT !.data = [obj EXCEPT !.files = added.data]]

\* db.session.commit() is the last statement of _perform_create and of
\* _perform_update: when the handler fails before it, the session is
\* discarded and the table is as it was
uncommitted(table, session) == table

(***************************************************************************)
(* VulnerabilityView: create                                               *)
(***************************************************************************)
\* super()._perform_create: the model class is instantiated with the loaded
\* data and the workspace; a web vulnerability has no host_id attribute, so
\* instantiating one with it raises TypeError
base_perform_create(data, workspace_name, type) ==
    IF type = "vulnerability_web" /\ "host_id" \in DOMAIN data THEN TypeError
    ELSE Ok([VulnRow(NewId, workspace_name, type, GetId(data, "host_id"),
                     GetId(data, "service_id"), data["severity"])
             EXCEPT !.tool = Get(data, "tool")])

\* "if not obj.tool: ..." at the end of _perform_create
default_tool(obj, creator_command_tool) ==
    IF Truthy(obj.tool) THEN obj
    ELSE IF Truthy(creator_command_tool) THEN [obj EXCEPT !.tool = creator_command_tool]
    ELSE [obj EXCEPT !.tool = "Web UI"]

\* VulnerabilityView._perform_create: TypeError becomes flask.abort(400);
\* the object is flushed, then the attachments are processed, then the tool
\* is defaulted, and the commit comes last.  table is the table the handler
\* leaves behind
_perform_create(data, workspace_name, json, creator_command_tool) ==
    LET attachments == IF "_attachments" \in DOMAIN data THEN data["_attachments"] ELSE <<>>
        obj == base_perform_create(Pop(data, "_attachments"), workspace_name,
                                   model_class("POST", json))
    IN  IF obj.kind = "TypeError"
        THEN Join(InvalidUsage("Bad Request"), [table |-> uncommitted(vulns, vulns)])
        ELSE LET attached == _process_attachments(obj.data, attachments)
             IN  IF attached.kind # "ok"
                 THEN [kind |-> attached.kind, msg |-> attached.msg, arg |-> attached.arg,
                       table |-> uncommitted(vulns, vulns \cup {attached.data})]
                 ELSE LET made == default_tool(attached.data, creator_command_tool)
                      IN  Join(Ok(made), [table |-> vulns \cup {made}])

\* POST /vulns, for a request that runs under a command of the given tool
\* (None when there is no command)
Post(workspace_name, body, creator_command_tool) ==
    /\ NewId <= MaxVulns
    /\ req' = [op |-> "create", ws |-> workspace_name, body |-> body,
               command_tool |-> creator_command_tool]
    /\ LET schema == _get_schema_class("POST", body)
           loaded == schema_load(body, FALSE, workspace_name)
           made == _perform_create(loaded.data, workspace_name, body, creator_command_tool)
       IN  IF schema.kind # "ok"
           THEN resp' = ErrorResponse("create", schema) /\ UNCHANGED vulns
           ELSE IF loaded.kind # "ok"
           THEN resp' = ErrorResponse("create", loaded) /\ UNCHANGED vulns
           ELSE /\ vulns' = made.table
                /\ resp' = IF made.kind # "ok" THEN ErrorResponse("create", made)
                           ELSE Response("create", 201, "Created", made.data.id)

\* POST /vulns outside a command
Create(workspace_name, body) == Post(workspace_name, body, None)

(***************************************************************************)
(* VulnerabilityView: update (PUT) and partial update (PATCH)              *)
(***************************************************************************)
\* the columns an object of the class maps: host_id is a column of
\* Vulnerability only, so setting it on a web vulnerability stores nothing
MappedColumn(obj, key) ==
    /\ key \in {"host_id", "service_id", "severity", "tool", "tags"}
    /\ ~(obj.type = "vulnerability_web" /\ key = "host_id")

\* super()._update_object: setattr(obj, key, value) for every key of data
base_update_object(obj, data) ==
    [k \in DOMAIN obj |->
        IF k \in DOMAIN data /\ MappedColumn(obj, k) THEN data[k] ELSE obj[k]]

\* mutant: only the type is popped
_update_object_keeps_tool(obj, data) == base_update_object(obj, Pop(data, "type"))
\* VulnerabilityView._update_object
_update_object(obj, data) == base_update_object(obj, Pop(Pop(data, "type"), "tool"))

\* self._get_object(object_id, workspace_name): the row with the id in the workspace
get_object(object_id, workspace_name) ==
    {v \in vulns : v.id = object_id /\ v.ws = workspace_name}

\* mutant: a missing _attachments key means no attachments, PATCH included
popped_attachments_always_empty(data, partial) ==
    IF "_attachments" \in DOMAIN data THEN Ok(data["_attachments"]) ELSE Ok(<<>>)
\* "attachments = data.pop('_attachments', None if partial else {})", with
\* None as an outcome that is not ok
popped_attachments(data, partial) ==
    IF "_attachments" \in DOMAIN data THEN Ok(data["_attachments"])
    ELSE IF partial THEN [kind |-> None] ELSE Ok(<<>>)

\* mutant: what the session holds when the handler fails is stored
_perform_update_stores_session(obj, data, partial) ==
    LET attachments == popped_attachments(data, partial)
        updated == _update_object(obj, Pop(data, "_attachments"))
        attached == IF attachments.kind = "ok"
                    THEN _process_attachments(updated, attachments.data)
                    ELSE Ok(updated)
    IN  IF attached.kind # "ok"
        THEN [kind |-> attached.kind, msg |-> attached.msg, arg |-> attached.arg,
              table |-> (vulns \ {obj}) \cup {attached.data}]
        ELSE Join(attached, [table |-> (vulns \ {obj}) \cup {attached.data}])

\* VulnerabilityView._perform_update: the object is updated and flushed, the
\* attachments are processed unless they are None, and the commit comes last
_perform_update(obj, data, partial) ==
    LET attachments == popped_attachments(data, partial)
        updated == _update_object(obj, Pop(data, "_attachments"))
        attached == IF attachments.kind = "ok"
                    THEN _process_attachments(updated, attachments.data)
                    ELSE Ok(updated)
    IN  IF attached.kind # "ok"
        THEN [kind |-> attached.kind, msg |-> attached.msg, arg |-> attached.arg,
              table |-> uncommitted(vulns, (vulns \ {obj}) \cup {attached.data})]
        ELSE Join(attached, [table |-> (vulns \ {obj}) \cup {attached.data}])

\* PUT /vulns/<id> (partial = FALSE) and PATCH /vulns/<id> (partial = TRUE)
Update(workspace_name, object_id, body, partial) ==
    /\ req' = [op |-> "update", ws |-> workspace_name, id |-> object_id,
               partial |-> partial, body |-> body]
    /\ LET found == get_object(object_id, workspace_name)
           loaded == schema_load(body, partial, workspace_name)
       IN  IF found = {}
           THEN resp' = Response("update", 404, "Not Found", NoId) /\ UNCHANGED vulns
           ELSE IF loaded.kind # "ok"
           THEN resp' = ErrorResponse("update", loaded) /\ UNCHANGED vulns
           ELSE LET done == _perform_update(CHOOSE v \in found : TRUE, loaded.data, partial)
                IN  /\ vulns' = done.table
                    /\ resp' = IF done.kind # "ok" THEN ErrorResponse("update", done)
                               ELSE Response("update", 200, "OK", object_id)

(***************************************************************************)
(* VulnerabilityView: bulk update and bulk delete                          *)
(***************************************************************************)
\* VulnerabilityView._bulk_update_query
_bulk_update_query(ids, workspace_name) ==
    {v \in vulns : v.id \in ids /\ v.ws = workspace_name}

\* mutant: the parent ids stay in the data
strip_protected_keeps_parent(data) == Pop(Pop(Pop(data, "type"), "tool"), "_attachments")
\* VulnerabilityView._pre_bulk_update, first part: the keys never mass-assigned
strip_protected(data) ==
    Pop(Pop(Pop(Pop(Pop(data, "type"), "tool"), "service_id"), "host_id"), "_attachments")

\* _get_model_association_proxy_fields, as the payload keys that map through
\* an association proxy of the model
AssociationProxyKeys == {"tags"}

\* VulnerabilityView._pre_bulk_update: data is what is left for the
\* mass update, extracted the association-proxy keys popped out of it
_pre_bulk_update(data) ==
    LET kept == strip_protected(data)
    IN  [data |-> [k \in DOMAIN kept \ AssociationProxyKeys |-> kept[k]],
         extracted |-> [k \in DOMAIN kept \cap AssociationProxyKeys |-> kept[k]]]

\* the mass update of the base view: query.update(data) on _bulk_update_query
base_bulk_update(table, rows, data) ==
    (table \ rows) \cup {base_update_object(v, data) : v \in rows}

\* mutant: the extracted keys are set on every row of the table
post_bulk_update_every_row(table, row_ids, extracted_data) ==
    {base_update_object(v, extracted_data) : v \in table}
\* VulnerabilityView._post_bulk_update: setattr(obj, key, value) for every
\* extracted key on every row of _bulk_update_query; rows are given by id
\* since the mass update has changed them
_post_bulk_update(table, row_ids, extracted_data) ==
    IF DOMAIN extracted_data = {} THEN table
    ELSE {IF v.id \in row_ids THEN base_update_object(v, extracted_data) ELSE v : v \in table}

\* PATCH /vulns: the payload is loaded as a partial one, split by
\* _pre_bulk_update, applied to every row of _bulk_update_query, and the
\* extracted keys are then set row by row
BulkUpdate(workspace_name, ids, body) ==
    /\ req' = [op |-> "bulk_update", ws |-> workspace_name, ids |-> ids, body |-> body]
    /\ LET loaded == schema_load(body, TRUE, workspace_name)
       IN  IF loaded.kind # "ok"
           THEN resp' = ErrorResponse("bulk_update", loaded) /\ UNCHANGED vulns
           ELSE LET pre == _pre_bulk_update(loaded.data)
                    rows == _bulk_update_query(ids, workspace_name)
                    updated == base_bulk_update(vulns, rows, pre.data)
                IN  /\ vulns' = _post_bulk_update(updated, {v.id : v \in rows}, pre.extracted)
                    /\ resp' = Join(Response("bulk_update", 200, "updated", Cardinality(rows)),
                                    [loaded |-> loaded.data, data |-> pre.data,
                                     extracted |-> pre.extracted, primary |-> updated])

\* mutant: the rows are not restricted to the workspace of the request
bulk_delete_query_any_workspace(ids, by, workspace_name) ==
    IF by # "severity" THEN {v \in vulns : v.id \in ids}
    ELSE {v \in vulns : v.severity \in ids}
\* VulnerabilityView._bulk_delete_query
_bulk_delete_query(ids, by, workspace_name) ==
    LET query == IF by # "severity" THEN {v \in vulns : v.id \in ids}
                 ELSE {v \in vulns : v.severity \in ids}
    IN  {v \in query : v.ws = workspace_name}

\* mutant: an 'ids' key in the body takes precedence over 'severities'
severity_mode_without_ids(json) == "severities" \in DOMAIN json /\ "ids" \notin DOMAIN json
\* "if not flask.request.json or 'severities' not in flask.request.json:" negated
severity_mode(json) == ~(DOMAIN json = {} \/ "severities" \notin DOMAIN json)

\* _perform_bulk_delete: the rows of _bulk_delete_query are deleted
_perform_bulk_delete(values, by, workspace_name) ==
    _bulk_delete_query(values, by, workspace_name)

\* DELETE /vulns
BulkDelete(workspace_name, body) ==
    /\ req' = [op |-> "bulk_delete", ws |-> workspace_name, body |-> body]
    /\ LET deleted ==
               IF severity_mode(body)
               THEN _perform_bulk_delete(body["severities"], "severity", workspace_name)
               ELSE IF "ids" \in DOMAIN body
               THEN _perform_bulk_delete(body["ids"], "id", workspace_name)
               ELSE {}
           by == IF severity_mode(body) THEN "severity" ELSE "id"
       IN  /\ vulns' = vulns \ deleted
           /\ resp' = Join([by |-> by],
                           IF ~severity_mode(body) /\ "ids" \notin DOMAIN body
                           THEN Response("bulk_delete", 400, "Bad Request", NoId)
                           ELSE Response("bulk_delete", 200, "deleted", Cardinality(deleted)))

(***************************************************************************)
(* The requests of the model.                                              *)
(***************************************************************************)

Severities == {"high", "low"}
TypeValues == {"", "Vulnerability", "VulnerabilityWeb", "VulnerabilityGeneric"}
\* parent ids: 0, one of each workspace, and one that exists nowhere
ParentValues == {<<>>, [parent_type |-> "Other", parent |-> 1]}
                \cup {[parent_type |-> t, parent |-> i] : t \in {"Host", "Service"}, i \in {0, 1, 2, 9}}

\* bodies of POST /vulns
CreateBodies == {Join(Join(a, b), c) :
                    a \in Opt("type", TypeValues), b \in ParentValues,
                    c \in Opt("severity", Severities)}

\* bodies of PUT and PATCH /vulns/<id>
UpdateBodies == {Join(Join(a, b), c) :
                    a \in Opt("type", {"Vulnerability", "VulnerabilityWeb"}),
                    b \in {<<>>} \cup {[parent_type |-> t, parent |-> i] :
                                          t \in {"Host", "Service"}, i \in {1, 2}},
                    c \in Opt("severity", {"high"})}

\* bodies of PATCH /vulns (without the ids)
BulkUpdateBodies == {[severity |-> "low"],
                     [severity |-> "low", type |-> "VulnerabilityWeb"],
                     [severity |-> "low", type |-> "Vulnerability",
                      parent_type |-> "Host", parent |-> 1],
                     [type |-> "Vulnerability", parent_type |-> "Service", parent |-> 2]}

IdSets == SUBSET (1..MaxVulns)
\* bodies of DELETE /vulns
BulkDeleteBodies == {<<>>} \cup {[severities |-> S] : S \in SUBSET Severities}
                    \cup {[ids |-> I] : I \in IdSets}
                    \cup {[severities |-> {"high"}, ids |-> I] : I \in IdSets}

(***************************************************************************)
(* Specification of the write endpoints: any sequence of create, update,   *)
(* partial update, bulk update and bulk delete requests on an empty table, *)
(* one request at a time: a request is handled as a whole, its response is *)
(* returned, and the view is idle until the next one.                      *)
(***************************************************************************)
Idle == req.op = "none"

InitCrud ==
    /\ vulns = {}
    /\ req = [op |-> "none"]
    /\ resp = [op |-> "none"]

\* the response has been sent: the request is over
Reply ==
    /\ ~Idle
    /\ req.op # "_hostname_filters"
    /\ req' = [op |-> "none"]
    /\ resp' = [op |-> "none"]
    /\ UNCHANGED vulns

NextCrud ==
    \/ Idle /\ \E w \in Workspaces, b \in CreateBodies : Create(w, b)
    \/ Idle /\ \E w \in Workspaces, i \in 1..MaxVulns, b \in UpdateBodies : Update(w, i, b, FALSE)
    \/ Idle /\ \E w \in Workspaces, i \in 1..MaxVulns, b \in UpdateBodies : Update(w, i, b, TRUE)
    \/ Idle /\ \E w \in Workspaces, I \in IdSets, b \in BulkUpdateBodies : BulkUpdate(w, I, b)
    \/ Idle /\ \E w \in Workspaces, b \in BulkDeleteBodies : BulkDelete(w, b)
    \/ Reply

SpecCrud == InitCrud /\ [][NextCrud]_vars

(***************************************************************************)
(* Queries.  A query result is the list of the ids of its vulnerability    *)
(* rows, in table (id) order; a join repeats a row once per joined row.    *)
(***************************************************************************)
RECURSIVE SortedIds(_)
SortedIds(S) ==
    IF S = {} THEN <<>>
    ELSE LET m == CHOOSE x \in S : \A y \in S : x <= y
         IN  <<m>> \o SortedIds(S \ {m})

Range(s) == {s[i] : i \in DOMAIN s}
Row(id) == CHOOSE v \in vulns : v.id = id

\* the host a service belongs to
ServiceHost(service_id) == {sv.host_id : sv \in {x \in Services : x.id = service_id}}
HostnamesOf(host_ids) == UNION {h.hostnames : h \in {x \in Hosts : x.id \in host_ids}}

\* query.join(...): each row repeated times[id] times
RECURSIVE Repeat(_, _)
Repeat(x, n) == IF n = 0 THEN <<>> ELSE <<x>> \o Repeat(x, n - 1)
JoinTimes(q, times) == Flatten([i \in DOMAIN q |-> Repeat(q[i], times[q[i]])])

\* the generic translator faraday.server.utils.search.search: the rows of
\* every workspace that satisfy the tree (the top-level list is a
\* conjunction); a leaf on a field the model cannot resolve raises
\* AttributeError
ResolvableFields == {"severity", "host__os", "confirmed"}

EvalLeaf(leaf, v) ==
    IF leaf["name"] = "severity" THEN v.severity = leaf["val"]
    ELSE IF leaf["name"] = "confirmed" THEN v.confirmed = (leaf["val"] = "true")
    ELSE \E h \in Hosts : h.id = v.host_id /\ h.os = leaf["val"]

RECURSIVE EvalNode(_, _)
EvalNode(node, v) ==
    IF IsLeaf(node) THEN EvalLeaf(node, v)
    ELSE IF "or" \in DOMAIN node
         THEN \E i \in DOMAIN node["or"] : EvalNode(node["or"][i], v)
         ELSE \A i \in DOMAIN node["and"] : EvalNode(node["and"][i], v)

RECURSIVE AllLeaves(_)
AllLeaves(T) ==
    IF T = <<>> THEN <<>>
    ELSE (IF IsLeaf(Head(T)) THEN <<Head(T)>>
          ELSE AllLeaves(IF "or" \in DOMAIN Head(T) THEN Head(T)["or"] ELSE Head(T)["and"]))
         \o AllLeaves(Tail(T))

AttributeError == [kind |-> "AttributeError", msg |-> "", arg |-> NoId]

search(filters) ==
    LET tree == IF "filters" \in DOMAIN filters THEN filters["filters"] ELSE <<>>
    IN  IF \E i \in DOMAIN AllLeaves(tree) : AllLeaves(tree)[i]["name"] \notin ResolvableFields
        THEN AttributeError
        ELSE Ok(SortedIds({v.id : v \in {x \in vulns : \A i \in DOMAIN tree : EvalNode(tree[i], x)}}))

(***************************************************************************)
(* VulnerabilityView._generate_filter_query                                *)
(***************************************************************************)
\* mutant: the query is not restricted to the workspace of the request
workspace_filter_missing(q, workspace) == q
\* "vulns = vulns.filter(VulnerabilityGeneric.workspace == workspace)"
workspace_filter(q, workspace) ==
    LET InWorkspace(id) == Row(id).ws = workspace IN SelectSeq(q, InWorkspace)

\* the top-level leaves named host__os
hosts_os_filter(filters) ==
    LET top == IF "filters" \in DOMAIN filters THEN filters["filters"] ELSE <<>>
        IsOs(node) == Get(node, "name") = "host__os"
    IN  SelectSeq(top, IsOs)

\* the filters without the top-level leaves named host__os
without_hosts_os(filters) ==
    LET NotOs(node) == Get(node, "name") # "host__os"
    IN  IF hosts_os_filter(filters) = <<>> THEN filters
        ELSE Put(filters, "filters", SelectSeq(filters["filters"], NotOs))

\* vulns.join(Host).join(Hostname).filter(or_(*or_filters)): the rows with a
\* host of their own, once per hostname of it that is one of the values
hostnames_host_branch(q, names) ==
    JoinTimes(q, [id \in Range(q) |-> Cardinality(HostnamesOf({Row(id).host_id}) \cap names)])

\* vulns.join(Service).join(Host).join(Hostname).filter(or_(*or_filters))
hostnames_service_branch(q, names) ==
    JoinTimes(q, [id \in Range(q) |->
                    Cardinality(HostnamesOf(ServiceHost(Row(id).service_id)) \cap names)])

\* Query.union: the distinct rows of both
union(q1, q2) == SortedIds(Range(q1) \cup Range(q2))

\* vulns.join(Host).join(Service).filter(Host.os == os_value): the rows with
\* a host of their own whose os is the value, once per service of that host
hosts_os_join(q, os_value) ==
    JoinTimes(q, [id \in Range(q) |->
                    IF \E h \in Hosts : h.id = Row(id).host_id /\ h.os = os_value
                    THEN Cardinality({sv \in Services : sv.host_id = Row(id).host_id})
                    ELSE 0])

\* the filters that _generate_filter_query hands to search
searched_filters(filters) == without_hosts_os(filters)

_generate_filter_query(filters, hostname_filters, workspace) ==
    LET os == hosts_os_filter(filters)
        found == search(searched_filters(filters))
    IN  IF found.kind # "ok" THEN found
        ELSE
            LET scoped == workspace_filter(found.data, workspace)
                names == {hostname_filters[i]["val"] : i \in DOMAIN hostname_filters}
                named == IF hostname_filters # <<>>
                         THEN union(hostnames_host_branch(scoped, names),
                                    hostnames_service_branch(scoped, names))
                         ELSE scoped
            IN  Ok(IF os # <<>> THEN hosts_os_join(named, os[1]["val"]) ELSE named)

(***************************************************************************)
(* VulnerabilityView._filter                                               *)
(***************************************************************************)
\* json.loads and FlaskRestlessSchema().load: the parameter is either not
\* JSON, or rejected by the schema, or a dict with a list of filters and
\* optional group_by, limit and offset
Malformed == [json |-> "malformed"]
SchemaInvalid == [json |-> "invalid"]
Valid(value) == [json |-> "valid", value |-> value]

\* get_filtered_data: the rows of the query grouped by the field, one
\* (key, count) pair per group
get_filtered_data(filters, q) ==
    {<<k, Cardinality({i \in DOMAIN q : Row(q[i]).severity = k})>> :
        k \in {Row(q[i]).severity : i \in DOMAIN q}}

\* vulns.limit(limit).offset(offset)
\* mutant: the offset is not applied
paginate_without_offset(q, limit, offset) ==
    IF limit # NoId /\ limit # 0
    THEN SubSeq(q, 1, IF limit < Len(q) THEN limit ELSE Len(q))
    ELSE q
paginate(q, limit, offset) ==
    LET skipped == IF offset # NoId /\ offset # 0
                   THEN SubSeq(q, offset + 1, Len(q)) ELSE q
    IN  IF limit # NoId /\ limit # 0
        THEN SubSeq(skipped, 1, IF limit < Len(skipped) THEN limit ELSE Len(skipped))
        ELSE skipped

\* the keys of a serialized vulnerability, of which the model follows a few
VulnerabilityWebSchemaFields ==
    {"_id", "type", "severity", "parent", "parent_type", "_attachments"}
\* "marshmallow_params = {'many': True, 'context': {}, 'exclude': ('_attachments', )}"
marshmallow_params == [many |-> TRUE, exclude |-> {"_attachments"}]
\* schema_class_dict['VulnerabilityWeb'](**marshmallow_params).dump(vulns):
\* the keys each dumped row carries
dump_fields(params) == VulnerabilityWebSchemaFields \ params.exclude

\* iterating a query of entities (the dump of the rows): the ORM yields each
\* entity once, in the order of its first row
RECURSIVE unique_rows(_)
unique_rows(q) ==
    IF q = <<>> THEN <<>>
    ELSE LET init == unique_rows(SubSeq(q, 1, Len(q) - 1))
         IN  IF q[Len(q)] \in Range(init) THEN init ELSE Append(init, q[Len(q)])

\* arg is the count answered with the rows: the total of the unpaginated
\* query, or the row count of the aggregation; searched lists the filters
\* handed to search, workspace_lookup tells whether _get_workspace was called
\* (every answer but the abort on invalid filters comes after the call)
FilterResponse(code, msg, rows, counted, groups, searched) ==
    [op |-> "filter", code |-> code, msg |-> msg,
     searched |-> searched, workspace_lookup |-> TRUE,
     fields |-> dump_fields(marshmallow_params),
     arg |-> IF groups = {} THEN Len(counted) ELSE Cardinality(groups),
     rows |-> rows, counted |-> counted, groups |-> groups]

\* mutant: the exception of the load is not caught and the request fails
invalid_filters_uncaught ==
    [FilterResponse(500, "Internal Server Error", <<>>, <<>>, {}, <<>>)
        EXCEPT !.workspace_lookup = FALSE]
\* "except (ValidationError, JSONDecodeError) ... flask.abort(400, 'Invalid
\* filters')", raised before self._get_workspace is called
invalid_filters_abort ==
    [FilterResponse(400, "Invalid filters", <<>>, <<>>, {}, <<>>)
        EXCEPT !.workspace_lookup = FALSE]

_filter(q, workspace_name) ==
    IF q.json # "valid" THEN invalid_filters_abort
    ELSE
        LET split == IF DOMAIN q.value # {}
                     THEN _hostname_filters(IF "filters" \in DOMAIN q.value
                                            THEN q.value["filters"] ELSE <<>>)
                     ELSE <<<<>>, <<>>>>
            filters == IF DOMAIN q.value # {} THEN Put(q.value, "filters", split[1]) ELSE q.value
            hostname_filters == split[2]
            query == _generate_filter_query(Pop(Pop(filters, "offset"), "limit"),
                                            hostname_filters, workspace_name)
            grouped == _generate_filter_query(filters, hostname_filters, workspace_name)
        IN  IF workspace_name \notin Workspaces
            THEN FilterResponse(404, "Not Found", <<>>, <<>>, {}, <<>>)
            ELSE IF "group_by" \notin DOMAIN filters THEN
                IF query.kind # "ok"
                THEN FilterResponse(400, "AttributeError", <<>>, <<>>, {},
                                    <<searched_filters(Pop(Pop(filters, "offset"), "limit"))>>)
                ELSE FilterResponse(200, "OK",
                                    unique_rows(paginate(query.data, GetId(filters, "limit"),
                                                         GetId(filters, "offset"))),
                                    query.data, {},
                                    <<searched_filters(Pop(Pop(filters, "offset"), "limit"))>>)
            ELSE
                IF grouped.kind # "ok"
                THEN FilterResponse(500, "AttributeError", <<>>, <<>>, {},
                                    <<searched_filters(filters)>>)
                ELSE FilterResponse(200, "OK", <<>>, grouped.data,
                                    get_filtered_data(filters, grouped.data),
                                    <<searched_filters(filters)>>)

\* GET /vulns/filter?q=...
Filter(workspace_name, q) ==
    /\ req' = [op |-> "filter", ws |-> workspace_name, q |-> q]
    /\ resp' = _filter(q, workspace_name)
    /\ UNCHANGED vulns

(***************************************************************************)
(* Specification of the filter endpoint: a table with rows of both         *)
(* workspaces, attached to hosts and to services, and any sequence of      *)
(* filter requests on it.                                                  *)
(***************************************************************************)
FilterRows == {VulnRow(1, "w1", "vulnerability", 1, NoId, "high"),
               VulnRow(2, "w1", "vulnerability_web", NoId, 1, "low"),
               VulnRow(3, "w1", "vulnerability", 3, NoId, "high"),
               VulnRow(4, "w2", "vulnerability", 2, NoId, "high"),
               VulnRow(5, "w2", "vulnerability_web", NoId, 2, "high")}

Bogus == [name |-> "bogus", op |-> "==", val |-> "x"]
FilterLeaves == {HostA, HostB, SevHigh, OsLinux, Bogus}

FilterShells == {Join(Join(g, l), o) :
                    g \in Opt("group_by", {"severity"}),
                    l \in Opt("limit", {0, 1}),
                    o \in Opt("offset", {0, 1})}

FilterParams == {Malformed, SchemaInvalid, Valid(<<>>)}
                \cup {Valid(Join([filters |-> T], sh)) :
                         T \in ForestUpTo(MaxFilterNodes, FilterLeaves), sh \in FilterShells}

InitFilter ==
    /\ vulns \in SUBSET FilterRows
    /\ req = [op |-> "none"]
    /\ resp = [op |-> "none"]

NextFilter ==
    \/ Idle /\ \E w \in Workspaces \cup {"w9"}, q \in FilterParams : Filter(w, q)
    \/ Reply

SpecFilter == InitFilter /\ [][NextFilter]_vars

(***************************************************************************)
(* VulnerabilityView.export_csv                                            *)
(***************************************************************************)
\* "'filters' not in filters": filters is the text of q, so this is a
\* substring test; of the texts of the model, the ones that hold the word
\* are the JSON objects with the key
filters_in_text(q) == q.json = "valid" /\ "filters" \in DOMAIN q.value

\* the body of "if confirmed:": a text without the word is replaced by a
\* new dict, and the leaf is appended to filters['filters']; on a text that
\* holds the word filters is still a str and the subscript raises TypeError
confirmed_filters(q) ==
    IF ~filters_in_text(q)
    THEN Ok(Valid([filters |-> <<[name |-> "confirmed", op |-> "==", val |-> "true"]>>]))
    ELSE TypeError

\* GET /vulns/export_csv; args is request.args, and a missing q is '{}'
export_csv(workspace_name, args) ==
    /\ req' = [op |-> "export_csv", ws |-> workspace_name, args |-> args]
    /\ UNCHANGED vulns
    /\ LET confirmed == Truthy(Get(args, "confirmed"))
           q == IF "q" \in DOMAIN args THEN args["q"] ELSE Valid(<<>>)
           filters == IF confirmed THEN confirmed_filters(q) ELSE Ok(q)
       IN  resp' = IF filters.kind # "ok"
                   THEN [FilterResponse(500, "TypeError", <<>>, <<>>, {}, <<>>)
                            EXCEPT !.op = "export_csv", !.workspace_lookup = FALSE]
                   ELSE [_filter(filters.data, workspace_name) EXCEPT !.op = "export_csv"]

(***************************************************************************)
(* Specification of the CSV export: a table with confirmed and unconfirmed *)
(* rows of both workspaces and any sequence of export requests on it.      *)
(***************************************************************************)
ExportRows == {[VulnRow(1, "w1", "vulnerability", 1, NoId, "high") EXCEPT !.confirmed = TRUE],
               VulnRow(2, "w1", "vulnerability", 1, NoId, "high"),
               [VulnRow(3, "w1", "vulnerability", 3, NoId, "low") EXCEPT !.confirmed = TRUE],
               [VulnRow(4, "w2", "vulnerability", 2, NoId, "high") EXCEPT !.confirmed = TRUE]}

ExportArgs == {Join(c, q) : c \in Opt("confirmed", {"", "true"}),
                            q \in Opt("q", {Malformed, Valid(<<>>), Valid([limit |-> 1])}
                                           \cup {Valid([filters |-> T]) :
                                                   T \in ForestUpTo(MaxFilterNodes, {SevHigh, HostA})})}

InitExport ==
    /\ vulns \in SUBSET ExportRows
    /\ req = [op |-> "none"]
    /\ resp = [op |-> "none"]

NextExport ==
    \/ Idle /\ \E w \in Workspaces, a \in ExportArgs : export_csv(w, a)
    \/ Reply

SpecExport == InitExport /\ [][NextExport]_vars

(***************************************************************************)
(* app.py: the login form.  The user table is fixed; a stored password is  *)
(* the hash of a password, or empty.                                       *)
(***************************************************************************)
Users == {[username |-> "alice", password |-> "H(p1)", is_active |-> TRUE],
          [username |-> "bob", password |-> "H(p2)", is_active |-> FALSE],
          [username |-> "carol", password |-> "", is_active |-> TRUE],
          [username |-> "dave", password |-> "", is_active |-> FALSE]}

\* _datastore.find_user(username=...) / User.query.filter_by(username=...)
find_user(username) == {u \in Users : u.username = username}

\* remove_null_caracters on the strings of the requests
remove_null_caracters(string) ==
    CASE string = "alice\\x00" -> "alice"
      [] string = "p1\\x00" -> "p1"
      [] OTHER -> string

\* verify_and_update_password(password, user): the hash of the password is
\* the stored one
verify_and_update_password(password, user) ==
    user.password = (CASE password = "p1" -> "H(p1)"
                       [] password = "p2" -> "H(p2)"
                       [] OTHER -> "H(?)")

\* "login_failed_message = ("Invalid username or password", 'error')",
\* configured as SECURITY_MSG_USER_DOES_NOT_EXIST and
\* SECURITY_MSG_INVALID_PASSWORD; the other messages are the library's
get_message(key) ==
    IF key \in {"USER_DOES_NOT_EXIST", "INVALID_PASSWORD"}
    THEN "Invalid username or password"
    ELSE "Account is disabled."

\* mutant: the account is tested before the password
validate_active_first(form) ==
    LET found == find_user(remove_null_caracters(form.email))
        user == CHOOSE u \in found : TRUE
        failed == [valid |-> FALSE, errors |-> <<get_message("USER_DOES_NOT_EXIST")>>]
    IN  IF form.email = "" \/ form.password = ""
        THEN [valid |-> FALSE, errors |-> <<"Not provided">>]
        ELSE IF found = {} THEN failed
        ELSE IF ~user.is_active
             THEN [valid |-> FALSE, errors |-> <<get_message("DISABLED_ACCOUNT")>>]
        ELSE IF remove_null_caracters(user.password) = "" THEN failed
        ELSE IF ~verify_and_update_password(remove_null_caracters(form.password), user)
             THEN failed
        ELSE [valid |-> TRUE, errors |-> <<>>]

\* CustomLoginForm.validate: what it returns and the errors of the form.
\* super(LoginForm, self).validate() runs the validators of the fields,
\* which require a user name and a password and give their own messages
validate(form) ==
    LET form_errors == IF form.email = "" THEN <<"Email not provided">>
                       ELSE IF form.password = "" THEN <<"Password not provided">>
                       ELSE <<>>
        found == find_user(remove_null_caracters(form.email))
        user == CHOOSE u \in found : TRUE
        failed == [valid |-> FALSE, errors |-> <<get_message("USER_DOES_NOT_EXIST")>>]
    IN  IF form_errors # <<>>
        THEN [valid |-> FALSE, errors |-> form_errors]
        ELSE IF found = {} THEN failed
        ELSE IF remove_null_caracters(user.password) = "" THEN failed
        ELSE IF ~verify_and_update_password(remove_null_caracters(form.password), user)
             THEN failed
        ELSE IF ~user.is_active
             THEN [valid |-> FALSE, errors |-> <<get_message("DISABLED_ACCOUNT")>>]
        ELSE [valid |-> TRUE, errors |-> <<>>]

\* a login form is validated
Login(form) ==
    /\ req' = [op |-> "validate", form |-> form]
    /\ resp' = Join([op |-> "validate"], validate(form))
    /\ UNCHANGED vulns

(***************************************************************************)
(* app.py: the user of a request and the before_request hook               *)
(***************************************************************************)
\* verify_token: the user of a token with a good signature whose
\* validation_check matches the password of the user; None (no user) for an
\* expired or forged token, an unknown user or a changed password
verify_token(token) ==
    IF token.signature # "good" THEN {}
    ELSE {u \in Users : u.username = token.user_id /\ u.password = token.validation_check}

\* load_user_from_request: the user it returns (none for None), or
\* flask.abort(401); header.split(None, 1) needs two words, and the type is
\* compared in lower case
load_user_from_request(headers) ==
    IF "Authorization" \notin DOMAIN headers THEN Ok({})
    ELSE LET header == headers["Authorization"]
             abort == [kind |-> "abort", data |-> {}]
             auth_type == CASE header.type = "Token" -> "token"
                            [] header.type = "Basic" -> "basic"
                            [] header.type = "Agent" -> "agent"
                            [] OTHER -> header.type
         IN  IF header.words < 2 THEN abort
             ELSE IF auth_type = "token"
                  THEN IF verify_token(header.token) = {} THEN abort
                       ELSE Ok(verify_token(header.token))
             ELSE IF auth_type = "agent" THEN Ok({})
             ELSE IF auth_type = "basic"
                  THEN Ok({u \in find_user(header.username) :
                                  verify_and_update_password(header.password, u)})
             ELSE abort

\* mutant: every view is reachable
login_required_never(is_anonymous, endpoint, method) == FALSE
\* default_login_required: whether the hook aborts with 401.  is_public is
\* set in create_app on the views of three endpoints; the view of an
\* endpoint that names no view function is None
default_login_required(is_anonymous, endpoint, method) ==
    LET is_public == endpoint \in {"security.login", "security.logout",
                                   "agent_creation_api.AgentCreationView:post"}
    IN  is_anonymous /\ ~is_public /\ method # "OPTIONS"

\* a request: flask_login takes the user of the session, or else the one of
\* load_user_from_request; the hook runs before the view; an OPTIONS
\* request is answered by the framework; the view of DELETE /vulns deletes
\* the rows named by ids, the other views write nothing
Request(session_user, headers, endpoint, method, ids) ==
    LET loaded == IF session_user # None THEN Ok(find_user(session_user))
                  ELSE load_user_from_request(headers)
    IN  /\ req' = [op |-> "request", session_user |-> session_user, headers |-> headers,
                   endpoint |-> endpoint, method |-> method, ids |-> ids,
                   loaded |-> loaded.kind]
        /\ IF loaded.kind = "abort"
              \/ default_login_required(loaded.data = {}, endpoint, method)
           THEN /\ resp' = Join(Response("request", 401, "Unauthorized", NoId),
                                [view |-> FALSE])
                /\ UNCHANGED vulns
           ELSE IF method = "OPTIONS"
           THEN /\ resp' = Join(Response("request", 200, "OK", NoId), [view |-> FALSE])
                /\ UNCHANGED vulns
           ELSE IF endpoint = None
           THEN /\ resp' = Join(Response("request", 404, "Not Found", NoId),
                                [view |-> FALSE])
                /\ UNCHANGED vulns
           ELSE /\ resp' = Join(Response("request", 200, "OK", NoId), [view |-> TRUE])
                /\ vulns' = IF endpoint = "VulnerabilityView:bulk_delete" /\ method = "DELETE"
                            THEN vulns \ _perform_bulk_delete(ids, "id", "w1")
                            ELSE vulns

(***************************************************************************)
(* Specification of authentication: login forms are validated and          *)
(* requests with and without credentials are made to public and to         *)
(* protected endpoints, on a table with two vulnerabilities.               *)
(***************************************************************************)
AuthHeaders ==
    LET Tokens ==
          {[user_id |-> "alice", validation_check |-> "H(p1)", signature |-> "good"],
           [user_id |-> "alice", validation_check |-> "H(old)", signature |-> "good"],
           [user_id |-> "alice", validation_check |-> "H(p1)", signature |-> "expired"],
           [user_id |-> "alice", validation_check |-> "H(p1)", signature |-> "forged"],
           [user_id |-> "mallory", validation_check |-> "H(p1)", signature |-> "good"]}
    IN
    Opt("Authorization",
        {[words |-> 1, type |-> "Token"], [words |-> 2, type |-> "Bearer"],
         [words |-> 2, type |-> "agent"]}
        \cup {[words |-> 2, type |-> "Token", token |-> t] : t \in Tokens}
        \cup {[words |-> 2, type |-> "Basic", username |-> u, password |-> p] :
                 u \in {"alice", "bob", "mallory"}, p \in {"p1", "p2"}})

InitAuth ==
    /\ vulns \in SUBSET {VulnRow(1, "w1", "vulnerability", 1, NoId, "high"),
                         VulnRow(2, "w1", "vulnerability", 1, NoId, "low")}
    /\ req = [op |-> "none"]
    /\ resp = [op |-> "none"]

NextAuth ==
    \/ Idle /\ \E form \in [email : {"", "alice", "alice\\x00", "bob", "carol", "dave",
                                       "mallory"},
                              password : {"", "p1", "p1\\x00", "p2", "x"}] :
                 Login(form)
    \/ Idle /\ \E u \in {None, "alice"}, h \in AuthHeaders,
                  e \in {"security.login", "security.logout",
                         "agent_creation_api.AgentCreationView:post",
                         "VulnerabilityView:bulk_delete", "VulnerabilityView:filter", None},
                  m \in {"GET", "DELETE", "OPTIONS"}, I \in {{1}, {1, 2}} :
                 Request(u, h, e, m, I)
    \/ Reply

SpecAuth == InitAuth /\ [][NextAuth]_vars

(***************************************************************************)
(* Specification of bulk update: a table with rows of both workspaces, one *)
(* of them with a tool and tags of its own, and any sequence of bulk       *)
(* update requests on it.                                                  *)
(***************************************************************************)
BulkRows == {[VulnRow(1, "w1", "vulnerability", 1, NoId, "high")
                 EXCEPT !.tool = "nmap", !.tags = {"old"}],
             VulnRow(2, "w1", "vulnerability_web", NoId, 1, "high"),
             VulnRow(3, "w2", "vulnerability", 2, NoId, "high")}

BulkIdSets == SUBSET {v.id : v \in BulkRows}

\* bodies of PATCH /vulns (without the ids): plain columns, association-proxy
\* keys, and the keys that are never mass-assigned
BulkPayloads == {<<>>,
                 [severity |-> "low"],
                 [tags |-> {"t1"}],
                 [tags |-> {}],
                 [severity |-> "low", tags |-> {"t1"}],
                 [tool |-> "burp"],
                 [type |-> "VulnerabilityWeb", tool |-> "burp", severity |-> "low",
                  _attachments |-> {"f"}],
                 [type |-> "Vulnerability", parent_type |-> "Host", parent |-> 3,
                  tags |-> {"t1"}],
                 [type |-> "Vulnerability", parent_type |-> "Service", parent |-> 2]}

InitBulk ==
    /\ vulns \in SUBSET BulkRows
    /\ req = [op |-> "none"]
    /\ resp = [op |-> "none"]

NextBulk ==
    \/ Idle /\ \E w \in Workspaces, I \in BulkIdSets, b \in BulkPayloads : BulkUpdate(w, I, b)
    \/ Reply

SpecBulk == InitBulk /\ [][NextBulk]_vars

(***************************************************************************)
(* VulnerabilityView: the evidence endpoints                               *)
(***************************************************************************)
\* mutant: the vulnerability is looked up by id alone
vuln_workspace_check_any_workspace(vuln_id, workspace_name) ==
    {v \in vulns : v.id = vuln_id}
\* "db.session.query(VulnerabilityGeneric, Workspace.id).join(Workspace)
\*  .filter(VulnerabilityGeneric.id == vuln_id, Workspace.name == workspace_name).first()"
vuln_workspace_check(vuln_id, workspace_name) ==
    {v \in vulns : v.id = vuln_id /\ v.ws = workspace_name}

\* VulnerabilitySchema.get_attachments: the keys of the dumped _attachments
get_attachments(obj) == {obj.files[i].filename : i \in DOMAIN obj.files}

\* the answer of an evidence endpoint: body is the files it returns
FileResponse(op, code, msg, body) == Join(Response(op, code, msg, NoId), [body |-> body])

\* mutant: the upload is stored whatever the vulnerability already has
evidence_exists_never(filename, obj) == FALSE
\* "if filename in vuln['_attachments']:"
evidence_exists(filename, obj) == filename \in get_attachments(obj)

\* POST /vulns/<id>/attachment; files is request.files
post_attachment(workspace_name, vuln_id, files) ==
    /\ req' = [op |-> "post_attachment", ws |-> workspace_name, id |-> vuln_id,
               files |-> files]
    /\ LET found == vuln_workspace_check(vuln_id, workspace_name)
       IN  IF found = {}
           THEN /\ resp' = FileResponse("post_attachment", 404, "Vulnerability not found", <<>>)
                /\ UNCHANGED vulns
           ELSE IF "file" \notin DOMAIN files
           THEN /\ resp' = FileResponse("post_attachment", 400, "Bad Request", <<>>)
                /\ UNCHANGED vulns
           ELSE LET obj == CHOOSE v \in found : TRUE
                    file == files["file"]
                IN  IF evidence_exists(file.filename, obj)
                    THEN /\ resp' = FileResponse("post_attachment", 400,
                                                 "Evidence already exists in vuln", <<>>)
                         /\ UNCHANGED vulns
                    ELSE /\ vulns' = (vulns \ {obj})
                                       \cup {[obj EXCEPT !.files = Append(@, file)]}
                         /\ resp' = FileResponse("post_attachment", 200,
                                                 "Evidence upload was successful", <<>>)

\* the positions of the File rows of the object with the file name
files_named(obj, filename) == {i \in DOMAIN obj.files : obj.files[i].filename = filename}

\* a sequence without its i-th element
Remove(s, i) == SubSeq(s, 1, i - 1) \o SubSeq(s, i + 1, Len(s))

\* GET /vulns/<id>/attachment/<name>; the name of the URL is looked up with
\* its spaces replaced by "%20", and .first() returns any row that matches
get_attachment(workspace_name, vuln_id, attachment_filename) ==
    /\ req' = [op |-> "get_attachment", ws |-> workspace_name, id |-> vuln_id,
               filename |-> attachment_filename]
    /\ UNCHANGED vulns
    /\ LET found == vuln_workspace_check(vuln_id, workspace_name)
       IN  IF found = {}
           THEN resp' = FileResponse("get_attachment", 404, "Vulnerability not found", <<>>)
           ELSE LET obj == CHOOSE v \in found : TRUE
                    matching == files_named(obj, replace(attachment_filename, " ", "%20"))
                IN  IF matching = {}
                    THEN resp' = FileResponse("get_attachment", 404, "File not found", <<>>)
                    ELSE \E i \in matching :
                           resp' = FileResponse("get_attachment", 200, "OK", <<obj.files[i]>>)

\* GET /vulns/<id>/attachments
get_attachments_by_vuln(workspace_name, vuln_id) ==
    /\ req' = [op |-> "get_attachments_by_vuln", ws |-> workspace_name, id |-> vuln_id]
    /\ UNCHANGED vulns
    /\ LET found == vuln_workspace_check(vuln_id, workspace_name)
       IN  IF found = {}
           THEN resp' = FileResponse("get_attachments_by_vuln", 404,
                                     "Vulnerability not found", <<>>)
           ELSE resp' = FileResponse("get_attachments_by_vuln", 200, "OK",
                                     (CHOOSE v \in found : TRUE).files)

\* DELETE /vulns/<id>/attachment/<name>
delete_attachment(workspace_name, vuln_id, attachment_filename) ==
    /\ req' = [op |-> "delete_attachment", ws |-> workspace_name, id |-> vuln_id,
               filename |-> attachment_filename]
    /\ LET found == vuln_workspace_check(vuln_id, workspace_name)
       IN  IF found = {}
           THEN /\ resp' = FileResponse("delete_attachment", 404,
                                        "Vulnerability not found", <<>>)
                /\ UNCHANGED vulns
           ELSE LET obj == CHOOSE v \in found : TRUE
                    matching == files_named(obj, attachment_filename)
                IN  IF matching = {}
                    THEN /\ resp' = FileResponse("delete_attachment", 404,
                                                 "File not found", <<>>)
                         /\ UNCHANGED vulns
                    ELSE \E i \in matching :
                           /\ vulns' = (vulns \ {obj})
                                         \cup {[obj EXCEPT !.files = Remove(@, i)]}
                           /\ resp' = FileResponse("delete_attachment", 200,
                                                   "Attachment was successfully deleted", <<>>)

(***************************************************************************)
(* Specification of the evidence files: a table with a vulnerability in    *)
(* each workspace, each with a file, and any sequence of creations,        *)
(* updates and evidence requests on it.                                    *)
(***************************************************************************)
AttachRows == {[VulnRow(1, "w1", "vulnerability", 1, NoId, "high")
                   EXCEPT !.files = <<[filename |-> <<"a">>, content |-> "c1"]>>],
               [VulnRow(2, "w2", "vulnerability", 2, NoId, "high")
                   EXCEPT !.files = <<[filename |-> <<"a">>, content |-> "c2"]>>]}

\* the values of _attachments: empty, a name with a space, a name with a
\* directory, two names that become one, and an item that does not decode
\* after one that does
AttachmentDicts ==
    {<<>>,
     <<[key |-> <<"a", " ", "b">>, data |-> "YzE="]>>,
     <<[key |-> <<"d", "/", "a">>, data |-> "YzI="]>>,
     <<[key |-> <<"a", " ", "b">>, data |-> "YzE="], [key |-> <<"a", "_", "b">>, data |-> "YzI="]>>,
     <<[key |-> <<"a">>, data |-> "YzE="], [key |-> <<"a", " ", "b">>, data |-> "YzE"]>>}

\* a complete payload for the workspace of each row, with and without the
\* _attachments key
AttachBodies ==
    LET base == {[type |-> "Vulnerability", parent_type |-> "Host", parent |-> p,
                  severity |-> "high"] : p \in {1, 2}}
    IN  base \cup {Put(b, "_attachments", a) : b \in base, a \in AttachmentDicts}

InitAttach ==
    /\ vulns \in SUBSET AttachRows
    /\ req = [op |-> "none"]
    /\ resp = [op |-> "none"]

NextAttach ==
    \/ Idle /\ \E w \in Workspaces, b \in AttachBodies : Create(w, b)
    \/ Idle /\ \E w \in Workspaces, i \in 1..MaxVulns, b \in AttachBodies : Update(w, i, b, FALSE)
    \/ Idle /\ \E w \in Workspaces, i \in 1..MaxVulns,
                  b \in {[severity |-> "high"]} \cup {[_attachments |-> a] : a \in AttachmentDicts} :
                 Update(w, i, b, TRUE)
    \/ Idle /\ \E w \in Workspaces, i \in 1..MaxVulns,
                  f \in Opt("file", {[filename |-> <<"a">>, content |-> "u"]}) :
                 post_attachment(w, i, f)
    \/ Idle /\ \E w \in Workspaces, i \in 1..MaxVulns,
                  f \in {<<"a">>, <<"a", "_", "b">>} :
                 get_attachment(w, i, f)
    \/ Idle /\ \E w \in Workspaces, i \in 1..MaxVulns : get_attachments_by_vuln(w, i)
    \/ Idle /\ \E w \in Workspaces, i \in 1..MaxVulns,
                  f \in {<<"a">>, <<"a", "_", "b">>} :
                 delete_attachment(w, i, f)
    \/ Reply

SpecAttach == InitAttach /\ [][NextAttach]_vars

(***************************************************************************)
(* Specification of type and tool: vulnerabilities are created with and    *)
(* without a tool, inside and outside a command, and then updated by PUT,  *)
(* PATCH and bulk update with payloads that name a type and a tool.        *)
(***************************************************************************)
ToolBodies ==
    LET base == {[type |-> "Vulnerability", parent_type |-> "Host", parent |-> 1,
                  severity |-> "high"],
                 [type |-> "VulnerabilityWeb", parent_type |-> "Service", parent |-> 1,
                  severity |-> "high"]}
    IN  {Join(b, t) : b \in base, t \in Opt("tool", {"", "burp", "zap"})}
ToolPatches == {Join(t, u) : t \in Opt("tool", {"", "zap"}),
                             u \in Opt("type", {"Vulnerability", "VulnerabilityWeb"})}

InitTool ==
    /\ vulns = {}
    /\ req = [op |-> "none"]
    /\ resp = [op |-> "none"]

NextTool ==
    \/ Idle /\ \E b \in ToolBodies, c \in {None, "", "nmap"} : Post("w1", b, c)
    \/ Idle /\ \E i \in 1..MaxVulns, b \in ToolBodies : Update("w1", i, b, FALSE)
    \/ Idle /\ \E i \in 1..MaxVulns, b \in ToolPatches : Update("w1", i, b, TRUE)
    \/ Idle /\ \E I \in SUBSET (1..MaxVulns), b \in ToolPatches : BulkUpdate("w1", I, b)
    \/ Reply

SpecTool == InitTool /\ [][NextTool]_vars

(***************************************************************************)
(* VulnerabilityView.count                                                 *)
(***************************************************************************)
\* the sequences that list the elements of S once each, in any order
Orders(S) == {o \in [1..Cardinality(S) -> S] : \A i, j \in 1..Cardinality(S) : o[i] = o[j] => i = j}

\* super().count: one group per value of the group_by column among the rows
\* of the workspace, {"count", "name", <group_by>}, in the order the database
\* returns them, and the total of the counts
base_count(workspace_name, group_by, order) ==
    LET mine == {v \in vulns : v.ws = workspace_name}
    IN  [groups |-> [i \in DOMAIN order |->
                        Put([count |-> Cardinality({v \in mine : v[group_by] = order[i]}),
                             name |-> order[i]],
                            group_by, order[i])],
         total_count |-> Cardinality(mine)]

\* mutant: 'medium' is not in the map
severity_map_without_medium == [informational |-> "info"]
\* severity_map of convert_group
severity_map == [informational |-> "info", medium |-> "med"]

\* convert_group: severity_map.get(severity, severity) on 'severity' and 'name'
convert_group(group) ==
    LET severity == group["severity"]
        label == IF severity \in DOMAIN severity_map THEN severity_map[severity] ELSE severity
    IN  Put(Put(group, "severity", label), "name", label)

\* GET /vulns/count?group_by=...
count(workspace_name, group_by, order) ==
    /\ req' = [op |-> "count", ws |-> workspace_name, group_by |-> group_by]
    /\ LET res == base_count(workspace_name, group_by, order)
       IN  resp' = [op |-> "count", code |-> 200, msg |-> "OK", arg |-> res.total_count,
                    base |-> res.groups,
                    groups |-> IF group_by = "severity"
                               THEN [i \in DOMAIN res.groups |-> convert_group(res.groups[i])]
                               ELSE res.groups]
    /\ UNCHANGED vulns

(***************************************************************************)
(* Specification of the count endpoint: a table with rows of every kind of *)
(* severity label, and any sequence of count requests on it.               *)
(***************************************************************************)
CountRows == {VulnRow(1, "w1", "vulnerability", 1, NoId, "informational"),
              VulnRow(2, "w1", "vulnerability_web", NoId, 1, "medium"),
              VulnRow(3, "w1", "vulnerability", 3, NoId, "high"),
              VulnRow(4, "w1", "vulnerability", 1, NoId, "medium"),
              VulnRow(5, "w2", "vulnerability", 2, NoId, "informational"),
              VulnRow(6, "w2", "vulnerability_web", NoId, 2, "info")}

GroupByValues == {"severity", "type"}

InitCount ==
    /\ vulns \in SUBSET CountRows
    /\ req = [op |-> "none"]
    /\ resp = [op |-> "none"]

NextCount ==
    \/ Idle /\ \E w \in Workspaces, g \in GroupByValues :
                  \E order \in Orders({v[g] : v \in {x \in vulns : x.ws = w}}) : count(w, g, order)
    \/ Reply

SpecCount == InitCount /\ [][NextCount]_vars

(***************************************************************************)
(* Specification of _hostname_filters alone: any tree of at most MaxNodes  *)
(* nodes, then the call.                                                   *)
(***************************************************************************)
InitHF ==
    /\ vulns = {}
    /\ req \in {[op |-> "_hostname_filters", filters |-> T] : T \in ForestUpTo(MaxNodes, LeafPool)}
    /\ resp = [op |-> "none"]

CallHostnameFilters ==
    /\ req.op = "_hostname_filters"
    /\ resp.op = "none"
    /\ LET r == _hostname_filters(req.filters)
       IN  resp' = [op |-> "_hostname_filters", res_filters |-> r[1], hostname_filters |-> r[2]]
    /\ UNCHANGED <<vulns, req>>

NextHF == CallHostnameFilters

SpecHF == InitHF /\ [][NextHF]_vars

(***************************************************************************)
(* What the claims about _hostname_filters speak of.                       *)
(***************************************************************************)
Children(node) == IF "or" \in DOMAIN node THEN node["or"] ELSE node["and"]
Label(node) == IF "or" \in DOMAIN node THEN "or" ELSE "and"
Group(label, children) == IF label = "or" THEN [or |-> children] ELSE [and |-> children]

\* the leaves of a tree, left to right, at every depth
RECURSIVE LeavesOf(_)
LeavesOf(T) ==
    IF T = <<>> THEN <<>>
    ELSE (IF IsLeaf(Head(T)) THEN <<Head(T)>> ELSE LeavesOf(Children(Head(T))))
         \o LeavesOf(Tail(T))

\* the leaves of a tree, each with the and/or labels of its ancestors, outermost first
RECURSIVE LabelledLeaves(_, _)
LabelledLeaves(T, chain) ==
    IF T = <<>> THEN <<>>
    ELSE (IF IsLeaf(Head(T)) THEN <<<<chain, Head(T)>>>>
          ELSE LabelledLeaves(Children(Head(T)), Append(chain, Label(Head(T)))))
         \o LabelledLeaves(Tail(T), chain)

Count(s, x) == Cardinality({i \in DOMAIN s : s[i] = x})
IsHostnames(leaf) == leaf["name"] = "hostnames"
NotHostnames(leaf) == ~IsHostnames(leaf)
NotHostnamesLabelled(pair) == ~IsHostnames(pair[2])

\* the tree with its hostnames leaves taken out and every group kept
RECURSIVE RemoveHostnames(_)
RemoveHostnames(T) ==
    IF T = <<>> THEN <<>>
    ELSE (IF IsLeaf(Head(T))
          THEN (IF IsHostnames(Head(T)) THEN <<>> ELSE <<Head(T)>>)
          ELSE <<Group(Label(Head(T)), RemoveHostnames(Children(Head(T))))>>)
         \o RemoveHostnames(Tail(T))

\* the tree without the groups that have no leaf beneath them
RECURSIVE DropHollow(_)
DropHollow(T) ==
    IF T = <<>> THEN <<>>
    ELSE (IF IsLeaf(Head(T)) THEN <<Head(T)>>
          ELSE IF LeavesOf(Children(Head(T))) = <<>> THEN <<>>
          ELSE <<Group(Label(Head(T)), DropHollow(Children(Head(T))))>>)
         \o DropHollow(Tail(T))

\* every group of the tree, at every depth, has at least one child
RECURSIVE NoEmptyGroup(_)
NoEmptyGroup(T) ==
    \A i \in DOMAIN T :
        IsLeaf(T[i]) \/ (Children(T[i]) # <<>> /\ NoEmptyGroup(Children(T[i])))

HasGroup(T) == \E i \in DOMAIN T : ~IsLeaf(T[i])
HFDone == resp.op = "_hostname_filters"

\* C2: every leaf named hostnames of the tree is in the returned hostname list
\* exactly as many times as it occurs in the tree (once per occurrence), the
\* list holds nothing else, and no leaf named hostnames is left in the returned
\* tree at any depth.
C2_HostnamesExtracted ==
    HFDone =>
        LET T == req.filters
            H == resp.hostname_filters
            R == resp.res_filters
        IN  /\ \A l \in LeafPool :
                 Count(H, l) = IF IsHostnames(l) THEN Count(LeavesOf(T), l) ELSE 0
            /\ Len(H) = Len(SelectSeq(LeavesOf(T), IsHostnames))
            /\ SelectSeq(LeavesOf(R), IsHostnames) = <<>>

\* C2 witness: two hostnames leaves, none at the top level, were extracted
C2_Witness ==
    /\ HFDone
    /\ \A i \in DOMAIN req.filters : ~IsLeaf(req.filters[i])
    /\ Len(resp.hostname_filters) = 2
    /\ resp.hostname_filters[1] # resp.hostname_filters[2]

ExampleTree == <<[or |-> <<HostA, [and |-> <<SevHigh>>]>>]>>
ExampleRest == <<[or |-> <<[and |-> <<SevHigh>>]>>]>>

\* C3: the returned tree is the input tree with its hostnames leaves removed
\* and the groups without any leaf omitted: every other leaf is there exactly
\* once, under the same chain of and/or ancestors and in the same order; the
\* example of the specification yields the documented pair.
C3_ShapePreserved ==
    HFDone =>
        LET T == req.filters
            R == resp.res_filters
        IN  /\ R = DropHollow(RemoveHostnames(T))
            /\ LabelledLeaves(R, <<>>) = SelectSeq(LabelledLeaves(T, <<>>), NotHostnamesLabelled)
            /\ (T = ExampleTree => R = ExampleRest /\ resp.hostname_filters = <<HostA>>)

\* C3 witness: the example of the specification
C3_Witness ==
    /\ HFDone
    /\ req.filters = ExampleTree
    /\ resp.res_filters = ExampleRest
    /\ resp.hostname_filters = <<HostA>>

\* C4 as stated: on a tree without a leaf named hostnames the call returns
\* the tree itself and an empty hostname list.
C4_IdentityAsStated ==
    (HFDone /\ SelectSeq(LeavesOf(req.filters), IsHostnames) = <<>>) =>
        (resp.res_filters = req.filters /\ resp.hostname_filters = <<>>)

\* C4 amended: on a tree without a leaf named hostnames and without an empty
\* and/or group at any depth the call returns the tree itself, node for node
\* and key for key, and an empty hostname list.
C4_IdentityNoEmptyGroup ==
    (HFDone /\ SelectSeq(LeavesOf(req.filters), IsHostnames) = <<>>
            /\ NoEmptyGroup(req.filters)) =>
        (resp.res_filters = req.filters /\ resp.hostname_filters = <<>>)

\* C4 witness: a hostname-free tree with a nested group and a leaf carrying
\* the optional field key came back unchanged
C4_Witness ==
    /\ HFDone
    /\ SelectSeq(LeavesOf(req.filters), IsHostnames) = <<>>
    /\ NoEmptyGroup(req.filters)
    /\ \E i \in DOMAIN req.filters :
          /\ ~IsLeaf(req.filters[i])
          /\ HasGroup(Children(req.filters[i]))
          /\ \E j \in DOMAIN LeavesOf(req.filters) : LeavesOf(req.filters)[j] = NameField
    /\ resp.res_filters = req.filters
    /\ resp.hostname_filters = <<>>

(***************************************************************************)
(* What the claims about the write endpoints speak of.  A step that serves *)
(* a request leaves the request in req' and its response in resp'.         *)
(***************************************************************************)
HostSet(v) == v.host_id # NoId
ServiceSet(v) == v.service_id # NoId
Unchanged == vulns' = vulns
Rejected400 == resp'.code = 400 /\ Unchanged

\* the body passes the deserialization and the required check of Schema.load
FieldsValid(body, partial) ==
    /\ "type" \in DOMAIN body => body["type"] \in {"Vulnerability", "VulnerabilityWeb"}
    /\ ~partial => RequiredFields \subseteq DOMAIN body

\* the body names a parent of one of the two kinds
NamesParent(body) ==
    /\ {"parent_type", "parent"} \subseteq DOMAIN body
    /\ body["parent_type"] \in {"Host", "Service"}

ParentExists(body, ws) == parent_query(body["parent_type"], ws, body["parent"]) # {}

\* a create request whose body reaches post_load_parent with a parent named
CreateWithParent(r) ==
    /\ r.op = "create"
    /\ FieldsValid(r.body, FALSE)
    /\ NamesParent(r.body)

\* an update request on an existing row whose body reaches post_load_parent
\* with a parent named
UpdateWithParent(r) ==
    /\ r.op = "update"
    /\ get_object(r.id, r.ws) # {}
    /\ FieldsValid(r.body, r.partial)
    /\ NamesParent(r.body)

\* the step stored exactly one new row, of the given type, in the workspace
\* of the request, attached to the parent the body names
CreatedUnder(r, type) ==
    /\ resp'.code = 201
    /\ \E v \in vulns' \ vulns :
          /\ vulns' = vulns \cup {v}
          /\ v.id = resp'.arg /\ v.ws = r.ws /\ v.type = type
          /\ IF r.body["parent_type"] = "Host"
             THEN v.host_id = r.body["parent"] /\ v.service_id = NoId
             ELSE v.service_id = r.body["parent"] /\ v.host_id = NoId

\* C5: every stored vulnerability has exactly one of host_id and service_id
\* set, after any sequence of create, update, partial update and bulk update.
C5_ParentExclusive ==
    \A v \in vulns : HostSet(v) # ServiceSet(v)

\* C6: no stored web vulnerability has host_id set, and every create or
\* update request that names a Host parent for a web vulnerability is
\* rejected with a client (validation) error and changes nothing.
C6_NoHostOnWeb ==
    [][ /\ \A v \in vulns' : v.type = "vulnerability_web" => ~HostSet(v)
        /\ ( /\ CreateWithParent(req')
             /\ req'.body["parent_type"] = "Host" /\ req'.body["parent"] # 0
             /\ req'.body["type"] = "VulnerabilityWeb" ) => Rejected400
        /\ ( /\ UpdateWithParent(req')
             /\ req'.body["parent_type"] = "Host" /\ req'.body["parent"] # 0
             /\ \E v \in get_object(req'.id, req'.ws) : v.type = "vulnerability_web" )
           => Rejected400
      ]_vars

C8_TypeDiscriminatorAsStated ==
    [][ req'.op = "create" =>
          LET b == req'.body
          IN  /\ "type" \notin DOMAIN b =>
                    Rejected400 /\ resp'.msg = "Type is required."
              /\ ("type" \in DOMAIN b /\ b["type"] \notin {"Vulnerability", "VulnerabilityWeb"}) =>
                    Rejected400 /\ resp'.msg = "Invalid vulnerability type."
              /\ ("type" \in DOMAIN b /\ b["type"] \in {"Vulnerability", "VulnerabilityWeb"}) =>
                    /\ _get_schema_class("POST", b) = Ok(schema_class_dict[b["type"]])
                    /\ \A v \in vulns' \ vulns : v.type = model_class_dict[b["type"]]
      ]_vars

\* C8 amended: a create with a non-empty body whose 'type' is missing or empty
\* fails with 'Type is required.', one whose 'type' is another string than
\* Vulnerability or VulnerabilityWeb fails with 'Invalid vulnerability type.',
\* and one with an empty or missing body fails the validation of the required
\* fields; all three are client errors that create nothing; otherwise the
\* schema and the class are the ones named by 'type'.
C8_TypeDiscriminator ==
    [][ req'.op = "create" =>
          LET b == req'.body
          IN  /\ (DOMAIN b # {} /\ ~Truthy(Get(b, "type"))) =>
                    Rejected400 /\ resp'.msg = "Type is required."
              /\ (Truthy(Get(b, "type")) /\ b["type"] \notin {"Vulnerability", "VulnerabilityWeb"}) =>
                    Rejected400 /\ resp'.msg = "Invalid vulnerability type."
              /\ DOMAIN b = {} =>
                    Rejected400 /\ resp'.msg = "Missing data for required field."
              /\ ("type" \in DOMAIN b /\ b["type"] \in {"Vulnerability", "VulnerabilityWeb"}) =>
                    /\ _get_schema_class("POST", b) = Ok(schema_class_dict[b["type"]])
                    /\ \A v \in vulns' \ vulns : v.type = model_class_dict[b["type"]]
      ]_vars

\* C8 witness: a create with type VulnerabilityGeneric was refused
C8_Witness ==
    /\ req.op = "create" /\ resp.code = 400
    /\ Get(req.body, "type") = "VulnerabilityGeneric"
    /\ resp.msg = "Invalid vulnerability type."

C10_BulkDeleteSeverities ==
    [][ (req'.op = "bulk_delete" /\ "severities" \in DOMAIN req'.body) =>
          /\ vulns' = {v \in vulns : ~(v.ws = req'.ws /\ v.severity \in req'.body["severities"])}
          /\ resp'.code = 200
      ]_vars

\* C10 witness: a bulk delete by severity removed a row and left a row of
\* the listed severity that belongs to another workspace
C10_Witness ==
    /\ req.op = "bulk_delete" /\ "severities" \in DOMAIN req.body
    /\ resp.code = 200 /\ resp.arg >= 1
    /\ \E v \in vulns : v.ws # req.ws /\ v.severity \in req.body["severities"]

(***************************************************************************)
(* Claims on the filter endpoint (SpecFilter)                              *)
(***************************************************************************)
FilterAnswered == req.op = "filter" /\ resp.code = 200
OtherWorkspaceRows(w) == {v \in vulns : v.ws # w}

\* C1: whatever the payload (hostnames predicates, host__os predicates,
\* group_by, limit, offset) and whatever the table holds, every row that
\* _filter returns and every row that it counts or aggregates is a stored
\* vulnerability of the workspace named in the request.
C1_WorkspaceIsolation ==
    FilterAnswered =>
        /\ \A i \in DOMAIN resp.rows :
              \E v \in vulns : v.id = resp.rows[i] /\ v.ws = req.ws
        /\ \A i \in DOMAIN resp.counted :
              \E v \in vulns : v.id = resp.counted[i] /\ v.ws = req.ws
        /\ Range(resp.rows) \subseteq Range(resp.counted)
        /\ resp.groups = {} => resp.arg = Len(resp.counted)

\* a hostnames filter answered through both branches of the union (a row on
\* a host and a row on a service), while the other workspace holds rows
\* that carry the same hostname through a host and through a service
C1_Witness ==
    /\ FilterAnswered
    /\ req.ws = "w1"
    /\ "filters" \in DOMAIN req.q.value
    /\ req.q.value["filters"] = <<HostA>>
    /\ Range(resp.rows) = {1, 2}
    /\ {v.id : v \in OtherWorkspaceRows("w1")} = {4, 5}

(***************************************************************************)
(* Claims on bulk delete, continued (SpecCrud)                             *)
(***************************************************************************)
\* C11: bulk_delete runs in severity mode exactly when the body contains the
\* key 'severities', whatever its value and whatever other keys are present:
\* it then deletes by severity and ignores 'ids'; every other body, the
\* empty one included, is handled by the id-list mode, which deletes the
\* rows of the workspace whose id is listed and rejects a body without ids.
C11_ModeByKeyPresence ==
    [][req'.op = "bulk_delete" =>
         LET body == req'.body
             mine == {v \in vulns : v.ws = req'.ws}
         IN  /\ resp'.by = "severity" <=> "severities" \in DOMAIN body
             /\ "severities" \in DOMAIN body =>
                   vulns \ vulns' = {v \in mine : v.severity \in body["severities"]}
             /\ "severities" \notin DOMAIN body /\ "ids" \in DOMAIN body =>
                   vulns \ vulns' = {v \in mine : v.id \in body["ids"]}
             /\ "severities" \notin DOMAIN body /\ "ids" \notin DOMAIN body =>
                   vulns' = vulns /\ resp'.code = 400
    ]_vars

\* a body with both keys is handled in severity mode: a row that 'ids' does
\* not list is deleted for its severity
C11_Witness ==
    /\ req.op = "bulk_delete"
    /\ DOMAIN req.body = {"severities", "ids"}
    /\ req.body["ids"] = {}
    /\ resp.by = "severity"
    /\ resp.arg = 1

(***************************************************************************)
(* Claims on the filter endpoint, continued (SpecFilter)                   *)
(***************************************************************************)
RequestTree == IF "filters" \in DOMAIN req.q.value THEN req.q.value["filters"] ELSE <<>>
Grouped == "group_by" \in DOMAIN req.q.value
\* the hostnames values of the request, at any depth
RequestedNames == {leaf["val"] : leaf \in {l \in Range(AllLeaves(RequestTree)) : IsHostnames(l)}}
TopLevelOs == {node \in Range(RequestTree) : IsLeaf(node) /\ node["name"] = "host__os"}
\* the hostnames of the host of a vulnerability: its own, or its service's
NamesOfVuln(v) == HostnamesOf({v.host_id}) \cup HostnamesOf(ServiceHost(v.service_id))
\* the rows of the workspace that satisfy the filters handed to search
MatchingRows == {v \in vulns : v.ws = req.ws /\ v.id \in Range(search(resp.searched[1]).data)}
Distinct(q) == \A i, j \in DOMAIN q : q[i] = q[j] => i = j

\* C12: when hostnames predicates were extracted, the rows of the result are
\* vulnerabilities reached through Host -> Hostname or through Service ->
\* Host -> Hostname with one of the extracted names (all of them when no
\* other join applies), each vulnerability is returned at most once and is
\* counted once in the total.
C12_DuplicateFreeUnion ==
    (FilterAnswered /\ ~Grouped /\ RequestedNames # {}) =>
        LET reached == {v.id : v \in {x \in MatchingRows : NamesOfVuln(x) \cap RequestedNames # {}}}
        IN  /\ Range(resp.counted) \subseteq reached
            /\ TopLevelOs = {} => Range(resp.counted) = reached
            /\ Distinct(resp.rows)
            /\ resp.arg = Cardinality(Range(resp.counted))

\* the filter tree handed to search by the request
SearchedTree == IF "filters" \in DOMAIN resp.searched[1]
                THEN resp.searched[1]["filters"] ELSE <<>>

\* C13: whenever _filter calls search, the tree it hands over has no leaf
\* named host__os, at the top level or under and/or groups.
C13_NoOsHandedToSearch ==
    (req.op = "filter" /\ resp.searched # <<>>) =>
        \A leaf \in Range(AllLeaves(SearchedTree)) : leaf["name"] # "host__os"

\* the os of the host of a vulnerability: its own host, or its service's
OsOfVuln(v) == {h.os : h \in {x \in Hosts : x.id \in {v.host_id} \cup ServiceHost(v.service_id)}}

\* C14: when host__os predicates were removed from the tree, the result is
\* exactly the vulnerabilities of the workspace that match the remaining
\* filters (and the extracted hostnames, if any) and whose host, their own
\* or the one of their service, has an os that satisfies every removed
\* predicate.
C14_OsReapplied ==
    (FilterAnswered /\ ~Grouped /\ TopLevelOs # {}) =>
        Range(resp.counted) =
            {v.id : v \in {x \in MatchingRows :
                              /\ RequestedNames # {} => NamesOfVuln(x) \cap RequestedNames # {}
                              /\ \A p \in TopLevelOs : p["val"] \in OsOfVuln(x)}}

\* C15: a filter parameter that is not JSON, or that the schema rejects, is
\* answered 400 'Invalid filters' whatever the workspace named, before the
\* workspace is looked up and before any query: nothing is searched, no row
\* is returned or counted, and the table is untouched.
C15_InvalidFilters ==
    (req.op = "filter" /\ req.q.json # "valid") =>
        /\ resp.code = 400
        /\ resp.msg = "Invalid filters"
        /\ ~resp.workspace_lookup
        /\ resp.searched = <<>>
        /\ resp.rows = <<>> /\ resp.counted = <<>> /\ resp.groups = {}

\* both kinds of invalid parameter, on a workspace that does not exist and
\* on one that holds rows
C15_Witness ==
    /\ req.op = "filter"
    /\ \/ req.q = Malformed /\ req.ws = "w9"
       \/ req.q = SchemaInvalid /\ req.ws = "w1"
    /\ \E v \in vulns : v.ws = "w1"
    /\ resp.code = 400

\* C16: when the tree handed to search names a field that search cannot
\* resolve, the request is answered 400, with or without group_by, and
\* returns nothing.
C16_UnresolvableField ==
    (req.op = "filter" /\ resp.searched # <<>>
     /\ \E leaf \in Range(AllLeaves(SearchedTree)) : leaf["name"] \notin ResolvableFields) =>
        /\ resp.code = 400
        /\ resp.rows = <<>> /\ resp.counted = <<>> /\ resp.groups = {}

\* limit and offset of the request, None (NoId) when absent
RequestLimit == GetId(req.q.value, "limit")
RequestOffset == GetId(req.q.value, "offset")
Min(a, b) == IF a < b THEN a ELSE b
\* the rows of q after skipping offset rows and taking n rows
Window(q, offset, n) == [i \in 1..n |-> q[offset + i]]
\* what the same request answers without limit and offset
Unpaginated == _filter(Valid(Pop(Pop(req.q.value, "limit"), "offset")), req.ws)
\* the rows of the workspace that match the filters and the hostnames
AllMatching == {v.id : v \in {x \in MatchingRows :
                   RequestedNames # {} => NamesOfVuln(x) \cap RequestedNames # {}}}

NormalizedLabel(severity) ==
    IF severity = "informational" THEN "info"
    ELSE IF severity = "medium" THEN "med"
    ELSE severity

\* C18: with group_by=severity every group of the result has 'severity' and
\* 'name' set to the normalized label of the group's severity ('info' for
\* 'informational', 'med' for 'medium', the severity itself otherwise); the
\* number and order of the groups and their other keys are those of the
\* base result; with another group_by the groups are the base result.
C18_SeverityNormalized ==
    req.op = "count" =>
        IF req.group_by = "severity"
        THEN /\ DOMAIN resp.groups = DOMAIN resp.base
             /\ \A i \in DOMAIN resp.base :
                   /\ DOMAIN resp.groups[i] = DOMAIN resp.base[i]
                   /\ resp.groups[i]["severity"] = NormalizedLabel(resp.base[i]["severity"])
                   /\ resp.groups[i]["name"] = NormalizedLabel(resp.base[i]["severity"])
                   /\ resp.groups[i]["count"] = resp.base[i]["count"]
        ELSE resp.groups = resp.base

\* a result with the three kinds of group: informational, medium, and one
\* that passes through
C18_Witness ==
    /\ req.op = "count" /\ req.group_by = "severity"
    /\ {resp.base[i]["severity"] : i \in DOMAIN resp.base} = {"informational", "medium", "high"}
    /\ {resp.groups[i]["name"] : i \in DOMAIN resp.groups} = {"info", "med", "high"}
    /\ \E i \in DOMAIN resp.groups : resp.groups[i]["count"] = 2

(***************************************************************************)
(* Claims on bulk update (SpecBulk)                                        *)
(***************************************************************************)
ProtectedKeys == {"type", "tool", "service_id", "host_id", "_attachments"}
BulkUpdated == req'.op = "bulk_update" /\ resp'.code = 200
RowAfter(id) == CHOOSE u \in vulns' : u.id = id

\* C19: a bulk update hands none of the keys type, tool, service_id, host_id
\* and _attachments to the update, whatever the payload, and every
\* vulnerability has afterwards the type, tool, host and service it had
\* before; no row appears or disappears.
C19_ProtectedFieldsKept ==
    [][req'.op = "bulk_update" =>
         /\ resp'.code = 200 =>
               (DOMAIN resp'.data \cup DOMAIN resp'.extracted) \cap ProtectedKeys = {}
         /\ {v.id : v \in vulns'} = {v.id : v \in vulns}
         /\ Cardinality(vulns') = Cardinality(vulns)
         /\ \A v \in vulns :
               /\ RowAfter(v.id).type = v.type
               /\ RowAfter(v.id).tool = v.tool
               /\ RowAfter(v.id).host_id = v.host_id
               /\ RowAfter(v.id).service_id = v.service_id
               /\ RowAfter(v.id).ws = v.ws
    ]_vars

\* a payload with a type, a tool, attachments and a severity is applied to
\* a row: its severity changes, its type and tool do not
C19_Witness ==
    /\ req.op = "bulk_update" /\ resp.code = 200
    /\ req.ws = "w1" /\ 1 \in req.ids
    /\ {"type", "tool", "_attachments", "severity"} \subseteq DOMAIN req.body
    /\ \E v \in vulns : /\ v.id = 1 /\ v.severity = "low"
                        /\ v.tool = "nmap" /\ v.type = "vulnerability"

\* C20: _pre_bulk_update splits the loaded payload, less the protected keys,
\* into the mass-update data and the extracted association-proxy keys: no
\* key is in both, none is lost, values are kept; the mass update leaves
\* the association-proxy attributes alone; _post_bulk_update then sets each
\* extracted key on exactly the rows whose id is requested and whose
\* workspace is the request's, and changes nothing when nothing was
\* extracted.
C20_TwoPhase ==
    [][BulkUpdated =>
         LET kept == DOMAIN resp'.loaded \ ProtectedKeys
             PrimaryRow(id) == CHOOSE u \in resp'.primary : u.id = id
         IN  /\ DOMAIN resp'.data \cap DOMAIN resp'.extracted = {}
             /\ DOMAIN resp'.data \cup DOMAIN resp'.extracted = kept
             /\ DOMAIN resp'.extracted = kept \cap AssociationProxyKeys
             /\ \A k \in DOMAIN resp'.data : resp'.data[k] = resp'.loaded[k]
             /\ \A k \in DOMAIN resp'.extracted : resp'.extracted[k] = resp'.loaded[k]
             /\ \A v \in vulns : PrimaryRow(v.id).tags = v.tags
             /\ \A v \in vulns :
                   IF v.id \in req'.ids /\ v.ws = req'.ws /\ DOMAIN resp'.extracted # {}
                   THEN RowAfter(v.id) =
                            [PrimaryRow(v.id) EXCEPT !.tags = resp'.extracted["tags"]]
                   ELSE RowAfter(v.id) = PrimaryRow(v.id)
    ]_vars

\* tags are set, with a severity, on the requested row of the workspace and
\* not on the requested row of the other workspace nor on the row that was
\* not requested
C20_Witness ==
    /\ req.op = "bulk_update" /\ resp.code = 200
    /\ req.ws = "w1" /\ req.ids = {1, 3}
    /\ req.body = [severity |-> "low", tags |-> {"t1"}]
    /\ \E v \in vulns : v.id = 1 /\ v.tags = {"t1"} /\ v.severity = "low"
    /\ \E v \in vulns : v.id = 2 /\ v.tags = {}
    /\ \E v \in vulns : v.id = 3 /\ v.tags = {} /\ v.severity = "high"

(***************************************************************************)
(* Claims about the evidence files (SpecAttach).                           *)
(***************************************************************************)
\* the row a request addresses by id and workspace, before the request
Addressed(r) == {v \in vulns : v.id = r.id /\ v.ws = r.ws}
\* the row with the id after the request
After(r) == {v \in vulns' : v.id = r.id}
FilenamesOf(files) == {files[i].filename : i \in DOMAIN files}

C22_ReplacementAsStated ==
    [][ (req'.op = "update" /\ ~req'.partial /\ resp'.code = 200
           /\ "_attachments" \in DOMAIN req'.body) =>
          LET A == req'.body["_attachments"]
          IN  \A v \in After(req') :
                 /\ Len(v.files) = Len(A)
                 /\ \A i \in DOMAIN A :
                      v.files[i].filename = replace(A[i].key, " ", "_") ]_vars

\* C22: after a PUT with the attachment map A the files of the row are one
\* per item of A, named by the last path component of the key with spaces
\* replaced by underscores and holding the decoded data, whatever the row
\* had before; the rows of the other vulnerabilities are untouched
C22_WholesaleReplacement ==
    [][ (req'.op = "update" /\ ~req'.partial /\ resp'.code = 200
           /\ "_attachments" \in DOMAIN req'.body) =>
          LET A == req'.body["_attachments"]
          IN  /\ \A v \in After(req') :
                   /\ Len(v.files) = Len(A)
                   /\ \A i \in DOMAIN A :
                        /\ v.files[i].filename = PathName(replace(A[i].key, " ", "_"))
                        /\ v.files[i].content = b64decode(A[i].data).data
              /\ After(req') # {}
              /\ \A u \in vulns : u.id # req'.id => u \in vulns' ]_vars

\* a PUT that replaced the files by one whose key has a directory
C22_Witness ==
    /\ req.op = "update" /\ ~req.partial /\ resp.code = 200
    /\ "_attachments" \in DOMAIN req.body
    /\ req.body["_attachments"] # <<>>
    /\ req.body["_attachments"][1].key = <<"d", "/", "a">>
    /\ \E u \in vulns : u.id # req.id /\ u.files # <<>>

EvidenceOps == {"post_attachment", "get_attachment", "get_attachments_by_vuln",
                "delete_attachment"}

C24_NoCrossWorkspaceLeak ==
    [][ (req'.op \in EvidenceOps /\ Addressed(req') = {}) =>
          /\ resp' = FileResponse(req'.op, 404, "Vulnerability not found", <<>>)
          /\ vulns' = vulns ]_vars

\* a delete that names a file of a vulnerability of the other workspace
C24_Witness ==
    /\ req.op = "delete_attachment" /\ resp.code = 404
    /\ resp.msg = "Vulnerability not found"
    /\ \E v \in vulns : /\ v.id = req.id /\ v.ws # req.ws
                        /\ req.filename \in FilenamesOf(v.files)

\* C29: an update without the '_attachments' key keeps the files of the row
\* when it is partial and removes all of them when it is not
C29_MissingAttachmentsKey ==
    [][ (req'.op = "update" /\ resp'.code = 200
           /\ "_attachments" \notin DOMAIN req'.body) =>
          \A v \in Addressed(req') :
             /\ After(req') # {}
             /\ \A w \in After(req') :
                  w.files = IF req'.partial THEN v.files ELSE <<>> ]_vars

\* a PATCH without the key on a row that has files
C29_Witness ==
    /\ req.op = "update" /\ req.partial /\ resp.code = 200
    /\ "_attachments" \notin DOMAIN req.body
    /\ \E v \in vulns : v.id = req.id /\ v.ws = req.ws /\ v.files # <<>>

(***************************************************************************)
(* Claims about type and tool (SpecTool).                                  *)
(***************************************************************************)
\* C28: a vulnerability is created with the tool of the payload when that
\* is not empty, else with the tool of the creating command when that is
\* not empty, else with 'Web UI', and with the type of the payload; no
\* update, partial update or bulk update changes the type or the tool of a
\* vulnerability, whatever its payload carries
C28_TypeAndToolFixed ==
    [][ /\ (req'.op = "create" /\ resp'.code = 201) =>
              \E v \in vulns' \ vulns :
                 /\ vulns' = vulns \cup {v}
                 /\ v.id = resp'.arg
                 /\ v.type = model_class_dict[req'.body["type"]]
                 /\ v.tool = IF Get(req'.body, "tool") \notin {None, ""}
                             THEN req'.body["tool"]
                             ELSE IF req'.command_tool \notin {None, ""}
                             THEN req'.command_tool
                             ELSE "Web UI"
                 /\ v.tool # ""
        /\ (req'.op \in {"update", "bulk_update"}) =>
              /\ {v.id : v \in vulns'} = {v.id : v \in vulns}
              /\ \A v \in vulns, w \in vulns' :
                    v.id = w.id => (w.type = v.type /\ w.tool = v.tool) ]_vars

\* a PUT that names another tool and another type, answered 200, on a
\* vulnerability that keeps the tool of its command
C28_Witness ==
    /\ req.op = "update" /\ ~req.partial /\ resp.code = 200
    /\ Get(req.body, "tool") = "zap" /\ req.body["type"] = "VulnerabilityWeb"
    /\ \E v \in vulns : v.id = req.id /\ v.tool = "nmap" /\ v.type = "vulnerability"

(***************************************************************************)
(* Claims about the meaning of a filter with hostnames (SpecFilter).       *)
(***************************************************************************)
\* what a tree means for a vulnerability: a hostnames leaf holds when the
\* host of the vulnerability, its own or its service's, has the name
RECURSIVE Meaning(_, _)
Meaning(node, v) ==
    IF IsLeaf(node)
    THEN IF IsHostnames(node) THEN node["val"] \in NamesOfVuln(v) ELSE EvalLeaf(node, v)
    ELSE IF "or" \in DOMAIN node
         THEN \E i \in DOMAIN node["or"] : Meaning(node["or"][i], v)
         ELSE \A i \in DOMAIN node["and"] : Meaning(node["and"][i], v)

\* C27: for a filter of hostnames and severity predicates without an empty
\* group, the rows _filter returns are exactly the vulnerabilities of the workspace that satisfy the
\* original tree, with the top-level list read as a conjunction
C27_ExtractionKeepsMeaning ==
    (FilterAnswered /\ ~Grouped /\ NoEmptyGroup(RequestTree)
     /\ \A leaf \in Range(AllLeaves(RequestTree)) : leaf["name"] \in {"hostnames", "severity"}) =>
        Range(resp.counted) =
            {v.id : v \in {x \in vulns : /\ x.ws = req.ws
                                         /\ \A i \in DOMAIN RequestTree :
                                               Meaning(RequestTree[i], x)}}

(***************************************************************************)
(* Claims about the CSV export (SpecExport).                               *)
(***************************************************************************)
\* the filter tree of an export request
ExportTree == IF "q" \in DOMAIN req.args /\ "filters" \in DOMAIN req.args["q"].value
              THEN req.args["q"].value["filters"] ELSE <<>>

\* C30: an export with a valid filter q without pagination completes, and
\* its rows are exactly the vulnerabilities of the workspace that satisfy q
\* and, when the confirmed parameter is set, are confirmed
C30_ConfirmedExportKeepsFilter ==
    (/\ req.op = "export_csv"
     /\ "q" \in DOMAIN req.args => /\ req.args["q"].json = "valid"
                                   /\ "limit" \notin DOMAIN req.args["q"].value
                                   /\ NoEmptyGroup(ExportTree)) =>
        /\ resp.code = 200
        /\ Range(resp.rows) =
             {v.id : v \in {x \in vulns :
                              /\ x.ws = req.ws
                              /\ \A i \in DOMAIN ExportTree : Meaning(ExportTree[i], x)
                              /\ Get(req.args, "confirmed") \notin {None, ""} => x.confirmed}}

(***************************************************************************)
(* Claims about authentication (SpecAuth).                                 *)
(***************************************************************************)
\* the users whose password the form carries, null characters removed
FormUsers ==
    {u \in Users : /\ u.username = remove_null_caracters(req.form.email)
                   /\ u.password # ""
                   /\ u.password = (CASE remove_null_caracters(req.form.password) = "p1" -> "H(p1)"
                                      [] remove_null_caracters(req.form.password) = "p2" -> "H(p2)"
                                      [] OTHER -> "H(?)")}

C26_LoginRequiredByDefault ==
    [][ (/\ req'.op = "request"
         /\ req'.session_user = None
         /\ req'.loaded = "ok"
         /\ load_user_from_request(req'.headers).data = {}
         /\ req'.endpoint \notin {"security.login", "security.logout",
                                  "agent_creation_api.AgentCreationView:post"}
         /\ req'.method # "OPTIONS") =>
           /\ resp'.code = 401
           /\ ~resp'.view
           /\ vulns' = vulns ]_vars

\* an anonymous DELETE of stored rows with a wrong basic password
C26_Witness ==
    /\ req.op = "request" /\ resp.code = 401
    /\ req.session_user = None /\ req.loaded = "ok"
    /\ req.endpoint = "VulnerabilityView:bulk_delete" /\ req.method = "DELETE"
    /\ "Authorization" \in DOMAIN req.headers
    /\ req.headers["Authorization"].type = "Basic"
    /\ \E v \in vulns : v.id \in req.ids

====
